---- MODULE Spec2Model ----
(***************************************************************************)
(* A model of the `naming` package (src/naming/base.py and                 *)
(* src/naming/__init__.py): name objects made of regex-governed fields     *)
(* joined by a separator.                                                  *)
(*                                                                         *)
(* Strings are sequences of one-character strings.  A regular expression   *)
(* is a tree of records (literal, one-or-more of a character class,        *)
(* sequence, named group, optional group) and `re.match` is the            *)
(* backtracking matcher RxRun, which lists the ways a pattern can match in *)
(* the order Python's engine tries them (greedy first).                    *)
(***************************************************************************)
EXTENDS Integers, Sequences, FiniteSets, TLC

(***************************************************************************)
(* Bounds of the model.                                                    *)
(***************************************************************************)
\* Every string over Alphabet of at most MaxLen characters is an input name.
MaxLen == 3
\* Every string over Alphabet of at most MaxValLen characters is an input
\* value of a field setter or an override of get().
MaxValLen == 1

\* A field setter that would leave a name of more than MaxNameLen characters
\* is not followed: a compound that lists itself grows at every set.
MaxNameLen == 12

Alphabet == {"a", "0", "_", "."}

\* Longer input names, which exercise the optional groups of the pipe field
\* and the suffix.
LongNames ==
    { <<"a", ".", "_", "a">>,
      <<"a", ".", "0", ".", "a">>,
      <<"a", ".", "a", ".", "0">>,
      <<"a", ".", "0", ".", "0">>,
      <<"a", ".", "a", ".", "0", ".", "0">>,
      <<"a", ".", "a", ".", "0", ".", "a">>,
      <<"a", "_", "a", ".", "0", ".", "a">>,
      <<"a", ".", "a", "0">>,
      <<"a", ".", "a", ".", "0", "0">> }

\* The separators an instance is given.
Seps == { <<".">>, <<"_">>, <<"_", "_">> }

(***************************************************************************)
(* Strings.                                                                *)
(***************************************************************************)
StrUpTo(n) == UNION { [1..k -> Alphabet] : k \in 0..n }

Names == StrUpTo(MaxLen) \cup LongNames

\* Python's None, where a string may stand.
None == << "<None>" >>

RECURSIVE Concat(_)
Concat(ss) == IF ss = <<>> THEN <<>> ELSE Head(ss) \o Concat(Tail(ss))

\* sep.join(parts)
RECURSIVE StrJoin(_, _)
StrJoin(sep, parts) ==
    IF parts = <<>> THEN <<>>
    ELSE IF Len(parts) = 1 THEN parts[1]
    ELSE parts[1] \o sep \o StrJoin(sep, Tail(parts))

\* sub in s
Contains(s, sub) ==
    \E i \in 1..(Len(s) - Len(sub) + 1) : SubSeq(s, i, i + Len(sub) - 1) = sub

(***************************************************************************)
(* Regular expressions.                                                    *)
(***************************************************************************)
WordChars == {"a", "0", "_", "1", "N", "o", "n", "e"}
DigitChars == {"0", "1"}

ClassChars(c) == IF c = "w" THEN WordChars ELSE DigitChars

RxLit(s) == [k |-> "lit", s |-> s]
RxPlus(c) == [k |-> "plus", c |-> c]
RxSeq(xs) == [k |-> "seq", xs |-> xs]
RxGrp(n, x) == [k |-> "grp", n |-> n, x |-> x]
RxOpt(x) == [k |-> "opt", x |-> x]

NoCaps == [g \in {} |-> None]

\* Length of the longest run of characters of class c in s from position i.
RECURSIVE RunLen(_, _, _)
RunLen(c, s, i) ==
    IF i <= Len(s) /\ s[i] \in ClassChars(c) THEN 1 + RunLen(c, s, i + 1) ELSE 0

\* The matches of r in s from position i, in the order a backtracking engine
\* tries them: each one the position after the match and its captures.
RECURSIVE RxRun(_, _, _)
RxRun(r, s, i) ==
    CASE r.k = "lit" ->
           IF i + Len(r.s) - 1 <= Len(s) /\ SubSeq(s, i, i + Len(r.s) - 1) = r.s
           THEN << [e |-> i + Len(r.s), c |-> NoCaps] >>
           ELSE << >>
      [] r.k = "plus" ->
           LET n == RunLen(r.c, s, i)
           IN  [j \in 1..n |-> [e |-> i + n - j + 1, c |-> NoCaps]]
      [] r.k = "grp" ->
           LET sub == RxRun(r.x, s, i)
           IN  [j \in 1..Len(sub) |->
                  [e |-> sub[j].e,
                   c |-> (r.n :> SubSeq(s, i, sub[j].e - 1)) @@ sub[j].c]]
      [] r.k = "opt" ->
           RxRun(r.x, s, i) \o << [e |-> i, c |-> NoCaps] >>
      [] r.k = "seq" ->
           IF r.xs = << >> THEN << [e |-> i, c |-> NoCaps] >>
           ELSE LET heads == RxRun(Head(r.xs), s, i)
                    rest == RxSeq(Tail(r.xs))
                IN  Concat([j \in 1..Len(heads) |->
                        LET t == RxRun(rest, s, heads[j].e)
                        IN  [m \in 1..Len(t) |->
                               [e |-> t[m].e, c |-> heads[j].c @@ t[m].c]]])

\* The names of the named groups of r.
RECURSIVE RxGroups(_)
RxGroups(r) ==
    CASE r.k = "grp" -> {r.n} \cup RxGroups(r.x)
      [] r.k = "opt" -> RxGroups(r.x)
      [] r.k = "seq" -> UNION { RxGroups(r.xs[j]) : j \in 1..Len(r.xs) }
      [] OTHER -> {}

\* re.compile('^' + r + '$').match(s): the first way r matches the whole of s,
\* as a sequence of at most one element.
RxMatch(r, s) ==
    LET full == SelectSeq(RxRun(r, s, 1), LAMBDA m : m.e = Len(s) + 1)
    IN  IF full = << >> THEN << >> ELSE << full[1] >>

\* match.groupdict(): every named group, None for one that took no part.
GroupDict(r, m) ==
    [g \in RxGroups(r) |-> IF g \in DOMAIN m.c THEN m.c[g] ELSE None]

(***************************************************************************)
(* Ordered dictionaries (Python dict): sequences of [k, v] entries with    *)
(* distinct keys, in insertion order.                                      *)
(***************************************************************************)
Keys(d) == { d[i].k : i \in 1..Len(d) }
KeyList(d) == [i \in 1..Len(d) |-> d[i].k]
Lookup(d, k) == d[CHOOSE i \in 1..Len(d) : d[i].k = k].v

\* d[k] = v
DictSet(d, k, v) ==
    IF k \in Keys(d)
    THEN [i \in 1..Len(d) |-> IF d[i].k = k THEN [k |-> k, v |-> v] ELSE d[i]]
    ELSE Append(d, [k |-> k, v |-> v])

\* d.update(e)
RECURSIVE DictUpdate(_, _)
DictUpdate(d, e) ==
    IF e = << >> THEN d ELSE DictUpdate(DictSet(d, e[1].k, e[1].v), Tail(e))

\* d.pop(k, None)
DictPop(d, k) == SelectSeq(d, LAMBDA x : x.k # k)
(***************************************************************************)
(* The classes.  A class object is a record of what getattr finds on the   *)
(* class: name, mro (without `object`), join, drop, config (the mapping    *)
(* its NameConfig holds), join_sep, dict (the descriptors, None and the    *)
(* properties __init_subclass__ and the body leave in the class's own      *)
(* __dict__, by name), props (the body's properties), attrs (what          *)
(* getattr on an instance finds by name, through the mro), ncs (the        *)
(* NameConfig descriptors found through the mro), and memo and _uc (what   *)
(* the first access of the descriptors on an instance leaves).  The        *)
(* properties and methods of the package itself (name, sep, get, ...) are  *)
(* not among the names.                                                    *)
(***************************************************************************)
W == RxPlus("w")
D == RxPlus("d")

NoAttrs == [n \in {} |-> "absent"]

BaseName ==
    [name |-> "_BaseName", mro |-> <<"_BaseName">>, join |-> << >>,
     drop |-> {}, config |-> << >>, join_sep |-> << >>, dict |-> NoAttrs,
     props |-> << >>, attrs |-> NoAttrs,
     ncs |-> << [k |-> "config", v |-> << >>] >>,
     get_pattern_list |-> << >>, lists |-> << >>,
     memo |-> NoAttrs, _uc |-> << >>]

\* The NameConfig descriptors in the body of the package's classes.
FileConfig == << [k |-> "suffix", v |-> W] >>
PipeConfig == << [k |-> "pipe", v |-> W], [k |-> "output", v |-> W],
                 [k |-> "version", v |-> D], [k |-> "index", v |-> D] >>

\* A class body: what it declares of config, drop, join and join_sep, its
\* string-valued properties and its other NameConfig descriptors.  A body
\* that overrides get_pattern_list returns `list`, followed by
\* super().get_pattern_list() where `super` is set.
Undeclared == [name |-> "", mro |-> << >>,
               hasList |-> FALSE, list |-> << >>, super |-> FALSE,
               hasConfig |-> FALSE, config |-> << >>,
               hasDrop |-> FALSE, drop |-> {},
               hasJoin |-> FALSE, join |-> << >>,
               hasJoinSep |-> FALSE, join_sep |-> << >>,
               props |-> << >>, configs |-> << >>]

\* The class statements, in the order they run: the package's, then the
\* user's classes the model is checked with.
Declared ==
    << [Undeclared EXCEPT !.name = "Name", !.mro = <<"Name", "_BaseName">>],
       [Undeclared EXCEPT !.name = "File", !.mro = <<"File", "_BaseName">>,
                          !.configs = << [k |-> "file_config",
                                          v |-> FileConfig] >>],
       [Undeclared EXCEPT !.name = "Pipe", !.mro = <<"Pipe", "_BaseName">>,
                          !.configs = << [k |-> "pipe_config",
                                          v |-> PipeConfig] >>],
       [Undeclared EXCEPT !.name = "PipeFile",
                          !.mro = <<"PipeFile", "File", "Pipe", "_BaseName">>],
       \* class MyName(Name): config = dict(base=r'\w+')
       [Undeclared EXCEPT !.name = "MyName",
                          !.mro = <<"MyName", "Name", "_BaseName">>,
                          !.hasConfig = TRUE,
                          !.config = << [k |-> "base", v |-> W] >>],
       \* class Project(MyName): config = dict(year=r'\d+')
       [Undeclared EXCEPT !.name = "Project",
                          !.mro = <<"Project", "MyName", "Name", "_BaseName">>,
                          !.hasConfig = TRUE,
                          !.config = << [k |-> "year", v |-> D] >>],
       \* class SubName(MyName): config = dict(second=r'\w+')
       [Undeclared EXCEPT !.name = "SubName",
                          !.mro = <<"SubName", "MyName", "Name", "_BaseName">>,
                          !.hasConfig = TRUE,
                          !.config = << [k |-> "second", v |-> W] >>],
       \* class Dropper(SubName): config = dict(last=r'\d+'); drop = ('base',)
       [Undeclared EXCEPT !.name = "Dropper",
                          !.mro = <<"Dropper", "SubName", "MyName", "Name",
                                    "_BaseName">>,
                          !.hasConfig = TRUE,
                          !.config = << [k |-> "last", v |-> D] >>,
                          !.hasDrop = TRUE, !.drop = {"base"}],
       \* class Subdropper(Dropper): config = dict(base=r'\d+')
       [Undeclared EXCEPT !.name = "Subdropper",
                          !.mro = <<"Subdropper", "Dropper", "SubName",
                                    "MyName", "Name", "_BaseName">>,
                          !.hasConfig = TRUE,
                          !.config = << [k |-> "base", v |-> D] >>],
       \* class MyPipe(Pipe): config = dict(base=r'\w+')
       [Undeclared EXCEPT !.name = "MyPipe",
                          !.mro = <<"MyPipe", "Pipe", "_BaseName">>,
                          !.hasConfig = TRUE,
                          !.config = << [k |-> "base", v |-> W] >>],
       \* class MyFile(File): config = dict(base=r'\w+')
       [Undeclared EXCEPT !.name = "MyFile",
                          !.mro = <<"MyFile", "File", "_BaseName">>,
                          !.hasConfig = TRUE,
                          !.config = << [k |-> "base", v |-> W] >>],
       \* class MyPipeFile(PipeFile): config = dict(base=r'\w+')
       [Undeclared EXCEPT !.name = "MyPipeFile",
                          !.mro = <<"MyPipeFile", "PipeFile", "File", "Pipe",
                                    "_BaseName">>,
                          !.hasConfig = TRUE,
                          !.config = << [k |-> "base", v |-> W] >>],
       \* class NoSuffix(MyFile): drop = ('suffix',)
       [Undeclared EXCEPT !.name = "NoSuffix",
                          !.mro = <<"NoSuffix", "MyFile", "File", "_BaseName">>,
                          !.hasDrop = TRUE, !.drop = {"suffix"}],
       \* class Nested(Name):
       \*     config = dict(base=r'\w+', x=r'\w+', y=r'\d+')
       \*     join = dict(x=('x', 'y'))
       [Undeclared EXCEPT !.name = "Nested",
                          !.mro = <<"Nested", "Name", "_BaseName">>,
                          !.hasConfig = TRUE,
                          !.config = << [k |-> "base", v |-> W],
                                        [k |-> "x", v |-> W],
                                        [k |-> "y", v |-> D] >>,
                          !.hasJoin = TRUE,
                          !.join = << [k |-> "x", v |-> <<"x", "y">>] >>],
       \* class ProjectFile(PipeFile):
       \*     config = dict(base=r'\w+', username=r'\w+')
       [Undeclared EXCEPT !.name = "ProjectFile",
                          !.mro = <<"ProjectFile", "PipeFile", "File", "Pipe",
                                    "_BaseName">>,
                          !.hasConfig = TRUE,
                          !.config = << [k |-> "base", v |-> W],
                                        [k |-> "username", v |-> W] >>] >>

\* The types instances are made of.
Types == {"MyName", "Project", "SubName", "Dropper", "Subdropper",
          "MyPipe", "MyFile", "MyPipeFile", "NoSuffix", "Nested",
          "ProjectFile"}

SeqSet(s) == { s[i] : i \in 1..Len(s) }

\* _dct_from_mro, given the attribute's value on each class of cls.mro():
\* the closest class is the strongest.
RECURSIVE DctFromMro(_)
DctFromMro(dicts) ==
    IF dicts = << >> THEN << >>
    ELSE DictUpdate(DctFromMro(Tail(dicts)), Head(dicts))

RECURSIVE DictPopAll(_, _)
DictPopAll(d, ks) ==
    IF ks = {} THEN d
    ELSE LET k == CHOOSE x \in ks : TRUE IN DictPopAll(DictPop(d, k), ks \ {k})

\* The class object the statement d makes, classes being the class objects
\* there are already: the body, then __init_subclass__.  getattr(c, a) for
\* the classes c of the mro gives, for the class itself, what its body
\* declares or else what it inherits, and for every other class what its
\* own __init_subclass__ left.
InitSubclass(classes, d) ==
    LET mro == d.mro
        OfMro(has, a) ==
            [i \in 1..Len(mro) |->
               IF i = 1 /\ d[has] THEN d[a]
               ELSE classes[mro[IF i = 1 THEN 2 ELSE i]][a]]
        join == DctFromMro(OfMro("hasJoin", "join"))
        drops == OfMro("hasDrop", "drop")
        drop == UNION { drops[i] : i \in 1..Len(mro) }
        cfg == DictPopAll(DctFromMro(OfMro("hasConfig", "config")), drop)
        fields == Keys(cfg) \cup Keys(join)
                    \cup UNION { Keys(d.configs[i].v) : i \in 1..Len(d.configs) }
        dict == [n \in Keys(d.props) \cup drop \cup fields |->
                   IF n \in fields THEN "field"
                   ELSE IF n \in drop THEN "none" ELSE "property"]
        Owner(n) == CHOOSE i \in 2..Len(mro) :
                       /\ n \in DOMAIN classes[mro[i]].dict
                       /\ \A j \in 2..(i - 1) : n \notin DOMAIN classes[mro[j]].dict
        names == DOMAIN dict
                   \cup UNION { DOMAIN classes[mro[i]].dict : i \in 2..Len(mro) }
        Found(n, i) ==
            IF i = 1 /\ n \in DOMAIN dict
            THEN [kind |-> dict[n],
                  prop |-> IF dict[n] = "property" THEN Lookup(d.props, n)
                           ELSE << >>]
            ELSE [kind |-> classes[mro[i]].dict[n],
                  prop |-> IF classes[mro[i]].dict[n] = "property"
                           THEN Lookup(classes[mro[i]].props, n) ELSE << >>]
        own == IF d.hasList THEN << [list |-> d.list, super |-> d.super] >>
               ELSE << >>
        ncs == DctFromMro([i \in 1..Len(mro) |->
                             IF i = 1
                             THEN Append(d.configs, [k |-> "config", v |-> cfg])
                             ELSE classes[mro[i]].ncs])
    IN  [name |-> d.name, mro |-> mro, join |-> join, drop |-> drop,
         config |-> cfg, join_sep |-> OfMro("hasJoinSep", "join_sep")[1],
         dict |-> dict, props |-> d.props,
         attrs |-> [n \in names |->
                      Found(n, IF n \in DOMAIN dict THEN 1 ELSE Owner(n))],
         ncs |-> ncs, get_pattern_list |-> own,
         lists |-> Concat([i \in 1..Len(mro) |->
                             IF i = 1 THEN own
                             ELSE classes[mro[i]].get_pattern_list]),
         memo |-> NoAttrs, _uc |-> << >>]

(***************************************************************************)
(* _sorted_items: the items of a mapping whose values are tuples of names, *)
(* an item only once no other key still to be yielded is among its values. *)
(***************************************************************************)
\* One run of the `for` loop were it to yield every item it meets, whatever
\* is left to yield.
SortedPassAny(mapping, i, to_yield, out) ==
    [to_yield |-> {},
     out |-> out \o SelectSeq(mapping, LAMBDA x : x.k \in to_yield)]

\* One run of the `for` loop over mapping.items(), from item i.
RECURSIVE SortedPass(_, _, _, _)
SortedPass(mapping, i, to_yield, out) ==
    IF i > Len(mapping) THEN [to_yield |-> to_yield, out |-> out]
    ELSE IF mapping[i].k \notin to_yield
            \/ ((to_yield \ {mapping[i].k}) \cap SeqSet(mapping[i].v)) # {}
    THEN SortedPass(mapping, i + 1, to_yield, out)
    ELSE SortedPass(mapping, i + 1, to_yield \ {mapping[i].k},
                    Append(out, mapping[i]))

\* The `while to_yield` loop.  A run of the `for` loop that yields nothing
\* leaves to_yield as it was, and the loop never ends: "loops".
RECURSIVE SortedLoop(_, _, _)
SortedLoop(mapping, to_yield, out) ==
    IF to_yield = {} THEN [items |-> out, loops |-> FALSE]
    ELSE LET p == SortedPass(mapping, 1, to_yield, out)
         IN  IF p.to_yield = to_yield THEN [items |-> out, loops |-> TRUE]
             ELSE SortedLoop(mapping, p.to_yield, p.out)

SortedItems(mapping) == SortedLoop(mapping, Keys(mapping), << >>)

(***************************************************************************)
(* NameConfig.__get__ on an instance of the class o: the compounds solved, *)
(* the resolved mapping and the lookup `_uc` it leaves on the instance and *)
(* its class.                                                              *)
(***************************************************************************)
\* _BaseName.cast
Cast(value, name) == IF name # "" THEN RxGrp(name, value) ELSE value

NoneStr == <<"N", "o", "n", "e">>

\* getattr(obj, x), as a pattern, on an instance with no values yet: a
\* FieldValue gives None and a dropped name is None.
AttrPattern(o, x) ==
    IF o.attrs[x].kind = "property" THEN RxLit(o.attrs[x].prop)
    ELSE RxLit(NoneStr)

\* ChainMap({}, solved, cfg).get(k, default), the first map being top.
ChainGet(top, solved, cfg, k, default) ==
    IF k \in Keys(top) THEN Lookup(top, k)
    ELSE IF k \in Keys(solved) THEN Lookup(solved, k)
    ELSE IF k \in Keys(cfg) THEN Lookup(cfg, k)
    ELSE default

\* solved.pop(k, pattern_lookup.get(k, default))
Popped(solved, top, cfg, k, default) ==
    IF k \in Keys(solved) THEN Lookup(solved, k)
    ELSE ChainGet(top, solved, cfg, k, default)

\* join_sep.join(patterns)
RxJoin(sep, parts) ==
    IF sep = << >> THEN RxSeq(parts)
    ELSE RxSeq([i \in 1..(2 * Len(parts) - 1) |->
                  IF i % 2 = 1 THEN parts[(i + 1) \div 2] ELSE RxLit(sep)])

DictValues(d) == [i \in 1..Len(d) |-> d[i].v]

\* The dict comprehension `compound_fields` of compound ck, from part i on.
RECURSIVE CompoundFields(_, _, _, _, _, _, _)
CompoundFields(o, cfg, top, ck, cvs, i, st) ==
    IF i > Len(cvs) THEN st
    ELSE IF cvs[i] \notin DOMAIN o.attrs
    THEN [st EXCEPT !.err = "AttributeError"]
    ELSE CompoundFields(o, cfg, top, ck, cvs, i + 1,
           [st EXCEPT
              !.solved = DictPop(st.solved, cvs[i]),
              !.fields = DictSet(st.fields, cvs[i],
                           Cast(Popped(st.solved, top, cfg, cvs[i],
                                       AttrPattern(o, cvs[i])),
                                IF cvs[i] # ck THEN cvs[i] ELSE ""))])

\* The loop over _sorted_items(compounds), from item i.
RECURSIVE SolveCompounds(_, _, _, _, _)
SolveCompounds(o, cfg, items, i, st) ==
    IF i > Len(items) \/ st.err # "" THEN st
    ELSE LET Solved(cf, compound_pattern) ==
                 IF cf.err # "" THEN [st EXCEPT !.err = cf.err]
                 ELSE SolveCompounds(o, cfg, items, i + 1,
                        [st EXCEPT
                           !.solved = DictSet(cf.solved, items[i].k,
                                              compound_pattern),
                           !.top = DictUpdate(st.top,
                                     DictSet(cf.fields, items[i].k,
                                             compound_pattern))])
             Joined(cf) == Solved(cf, RxJoin(o.join_sep, DictValues(cf.fields)))
         IN  Joined(CompoundFields(o, cfg, st.top, items[i].k, items[i].v, 1,
                      [solved |-> st.solved, fields |-> << >>, err |-> ""]))

\* The compounds related to cfg.
Compounds(o, cfg) ==
    SelectSeq(o.join,
              LAMBDA x : x.k \in Keys(cfg) \/ (SeqSet(x.v) \cap Keys(cfg)) # {})

\* The loop over cfg.items() that fills result were it to keep the parts of
\* the compounds.
ResultWithParts(cfg, compounds, sorted, st) ==
    [loops |-> sorted.loops,
     err |-> st.err,
     result |-> [i \in 1..Len(cfg) |->
                   IF cfg[i].k \in Keys(compounds) /\ cfg[i].k \in Keys(st.solved)
                   THEN [k |-> cfg[i].k, v |-> Lookup(st.solved, cfg[i].k)]
                   ELSE cfg[i]],
     uc |-> [top |-> st.top, solved |-> << >>, cfg |-> cfg]]

\* The loop over cfg.items() that fills result, given the compounds and
\* what the loop over them left.
Result(cfg, compounds, sorted, st) ==
    LET compounds_fields == UNION { SeqSet(compounds[i].v) :
                                      i \in 1..Len(compounds) }
        taken == { k \in Keys(cfg) :
                     k \in Keys(compounds) /\ k \in Keys(st.solved) }
        kept == SelectSeq(cfg, LAMBDA x :
                    x.k \in taken \/ x.k \notin compounds_fields)
    IN  [loops |-> sorted.loops,
         err |-> st.err,
         result |-> [i \in 1..Len(kept) |->
                       IF kept[i].k \in taken
                       THEN [k |-> kept[i].k,
                             v |-> Lookup(st.solved, kept[i].k)]
                       ELSE kept[i]],
         uc |-> [top |-> st.top,
                 solved |-> SelectSeq(st.solved, LAMBDA x : x.k \notin taken),
                 cfg |-> cfg]]

\* __get__(obj, objtype) of a NameConfig holding cfg, its memo empty:
\* result is the mapping returned, uc the lookup left in _uc.
NameConfigGet(o, cfg) ==
    LET Solve(compounds, sorted) ==
            Result(cfg, compounds, sorted,
                   SolveCompounds(o, cfg, sorted.items, 1,
                                  [solved |-> << >>, top |-> << >>, err |-> ""]))
        Sort(compounds) == Solve(compounds, SortedItems(compounds))
    IN  Sort(Compounds(o, cfg))

\* The class once an instance has used its NameConfig descriptors: each
\* memoizes what its first access gives, and the last one of them that
\* _pattern reaches, `config`, leaves _uc.
FirstUse(o) ==
    LET Memoized(memo) == [o EXCEPT !.memo = memo, !._uc = memo["config"].uc]
    IN  Memoized([k \in Keys(o.ncs) |-> NameConfigGet(o, Lookup(o.ncs, k))])

\* The class statements run.
RECURSIVE DefineAll(_, _)
DefineAll(classes, decls) ==
    IF decls = << >> THEN classes
    ELSE DefineAll(classes @@ (Head(decls).name
                                 :> FirstUse(InitSubclass(classes, Head(decls)))),
                   Tail(decls))

Classes == DefineAll(("_BaseName" :> BaseName), Declared)

(***************************************************************************)
(* Python values given to setters and to get(): strings, integers, None.   *)
(***************************************************************************)
PyStr(s) == [t |-> "str", s |-> s, i |-> 0]
PyInt(i) == [t |-> "int", s |-> << >>, i |-> i]
PyNone == [t |-> "none", s |-> << >>, i |-> 0]

\* bool(v)
Truthy(v) ==
    CASE v.t = "str" -> v.s # << >>
      [] v.t = "int" -> v.i # 0
      [] OTHER -> FALSE

\* rf'{v}' and str(v)
Fmt(v) ==
    CASE v.t = "str" -> v.s
      [] v.t = "int" -> IF v.i = 0 THEN <<"0">> ELSE <<"1">>
      [] OTHER -> NoneStr

\* A stored value (a string or None) as a Python value.
Stored(x) == IF x = None THEN PyNone ELSE PyStr(x)

\* a or b
Or(a, b) == IF Truthy(a) THEN a ELSE b

\* '{n}'
Placeholder(n) == << "{" \o n \o "}" >>

(***************************************************************************)
(* The instance: self is [cls, _separator, __regex, _name, _values], where *)
(* cls is the class object, __regex the compiled pattern and _values maps  *)
(* group names to strings or None.                                         *)
(***************************************************************************)
\* obj._values.get(n)
ValuesGet(self, n) ==
    IF n \in DOMAIN self._values THEN self._values[n] ELSE None

\* getattr(self, n) for the name n of a field, a dropped name or a property
GetAttr(self, n) ==
    CASE self.cls.attrs[n].kind = "field" -> Stored(ValuesGet(self, n))
      [] self.cls.attrs[n].kind = "property" -> PyStr(self.cls.attrs[n].prop)
      [] OTHER -> PyNone

\* The names that have a FieldValue descriptor on the type.
FieldsOf(o) == { n \in DOMAIN o.attrs : o.attrs[n].kind = "field" }

\* The values property: the groups that are not None, as keyword arguments.
Values(self) ==
    [g \in { h \in DOMAIN self._values : self._values[h] # None } |->
       PyStr(self._values[g])]

\* get_pattern_list as found from the override i of the mro on:
\* _BaseName's gives the keys of self.config.
RECURSIVE PatternListFrom(_, _)
PatternListFrom(o, i) ==
    IF i > Len(o.lists) THEN KeyList(o.memo["config"].result)
    ELSE o.lists[i].list
         \o (IF o.lists[i].super THEN PatternListFrom(o, i + 1) ELSE << >>)

\* get_pattern_list
GetPatternList(o) == PatternListFrom(o, 1)

\* get_pattern_list reads self.config: every override there is calls super().
ListReadsConfig(o) == \A i \in 1..Len(o.lists) : o.lists[i].super

\* cast_config
CastConfig(config) ==
    [i \in 1..Len(config) |->
       [k |-> config[i].k, v |-> Cast(config[i].v, config[i].k)]]

Dot == <<".">>

\* File._pattern: what it appends to super()._pattern
FilePattern(casted) == RxSeq(<< RxLit(Dot), Lookup(casted, "suffix") >>)

\* Pipe._pattern were the pipe field to have no output.
PipePatternBare(casted) ==
    RxGrp("pipe", RxSeq(<<
        RxLit(Dot), Lookup(casted, "version"),
        RxOpt(RxSeq(<< RxLit(Dot), Lookup(casted, "index") >>)) >>))

\* Pipe._pattern: what it appends to super()._pattern
PipePattern(casted) ==
    RxGrp("pipe", RxSeq(<<
        RxOpt(RxSeq(<< RxLit(Dot), Lookup(casted, "output") >>)),
        RxLit(Dot), Lookup(casted, "version"),
        RxOpt(RxSeq(<< RxLit(Dot), Lookup(casted, "index") >>)) >>))

\* _BaseName._pattern
BasePattern(o, pattern_list, sep) ==
    RxJoin(sep, [j \in 1..Len(pattern_list) |->
                   Cast(ChainGet(o._uc.top, o._uc.solved, o._uc.cfg,
                                 pattern_list[j],
                                 AttrPattern(o, pattern_list[j])),
                        pattern_list[j])])

\* The _pattern property as found from class i of the mro on: File and Pipe
\* append their part to what super() gives.
RECURSIVE PatternFrom(_, _, _)
PatternFrom(o, i, sep) ==
    CASE o.mro[i] = "File" ->
           RxSeq(<< PatternFrom(o, i + 1, sep),
                    FilePattern(CastConfig(o.memo["file_config"].result)) >>)
      [] o.mro[i] = "Pipe" ->
           RxSeq(<< PatternFrom(o, i + 1, sep),
                    PipePattern(CastConfig(o.memo["pipe_config"].result)) >>)
      [] o.mro[i] = "_BaseName" -> BasePattern(o, GetPatternList(o), sep)
      [] OTHER -> PatternFrom(o, i + 1, sep)

\* self._pattern for the separator sep
Pattern(o, sep) == PatternFrom(o, 1, sep)

\* _pattern were it to join whatever list it is given.
PatternErrorNever(o) == ""

\* The ValueError of _pattern when the pattern list is empty.
PatternError(o) == IF GetPatternList(o) = << >> THEN "ValueError" ELSE ""

\* The names of the pattern list that getattr(self, p) does not find.
NoAttr(o) == { p \in SeqSet(GetPatternList(o)) : p \notin DOMAIN o.attrs }

(***************************************************************************)
(* get with keyword arguments: they are functions from names to Python     *)
(* values.  A result is [exc, ret].                                        *)
(***************************************************************************)
NoKw == [n \in {} |-> PyNone]

\* values.get(k)
KwGet(values, k) == IF k \in DOMAIN values THEN values[k] ELSE PyNone

KwPop(values, k) == [n \in DOMAIN values \ {k} |-> values[n]]

KwSet(values, k, v) ==
    [n \in DOMAIN values \cup {k} |-> IF n = k THEN v ELSE values[n]]

Ret(s) == [exc |-> "", ret |-> s]
Raise(e) == [exc |-> e, ret |-> << >>]

\* _iter_translated_field_names
RECURSIVE TranslatedFieldNames(_, _, _)
TranslatedFieldNames(self, names, values) ==
    IF names = << >> THEN << >>
    ELSE << IF Head(names) \in DOMAIN values THEN Fmt(values[Head(names)])
            ELSE Fmt(Or(GetAttr(self, Head(names)),
                        PyStr(Placeholder(Head(names))))) >>
         \o TranslatedFieldNames(self, Tail(names), values)

\* _get_nice_name were it to join the names with '.' whatever the separator.
GetNiceNameDotted(self, values) ==
    StrJoin(Dot, TranslatedFieldNames(self, GetPatternList(self.cls), values))

\* _get_nice_name
GetNiceName(self, values) ==
    StrJoin(self._separator,
            TranslatedFieldNames(self, GetPatternList(self.cls), values))

\* comp_values = [values.pop(cv, getattr(self, cv)) for cv in cvs], from part
\* i on: st is [values, comp, exc].
RECURSIVE CompValues(_, _, _, _)
CompValues(self, cvs, i, st) ==
    IF i > Len(cvs) THEN st
    ELSE IF cvs[i] \notin DOMAIN self.cls.attrs
    THEN [st EXCEPT !.exc = "AttributeError"]
    ELSE CompValues(self, cvs, i + 1,
           [st EXCEPT
              !.values = KwPop(st.values, cvs[i]),
              !.comp = Append(st.comp,
                         IF cvs[i] \in DOMAIN st.values THEN st.values[cvs[i]]
                         ELSE GetAttr(self, cvs[i]))])

\* values[ck] = join_sep.join(...) if None not in comp_values
Compound(self, ck, cv) ==
    IF \A j \in 1..Len(cv.comp) : cv.comp[j] # PyNone
    THEN KwSet(cv.values, ck,
               PyStr(StrJoin(self.cls.join_sep,
                             [j \in 1..Len(cv.comp) |-> Fmt(cv.comp[j])])))
    ELSE cv.values

\* The loop of _BaseName.get were it to join the parts of every compound,
\* overridden or not.
RECURSIVE SolveValuesAll(_, _, _, _)
SolveValuesAll(self, items, i, st) ==
    IF i > Len(items) \/ st.exc # "" THEN st
    ELSE LET Solved(cv) ==
                 IF cv.exc # "" THEN [st EXCEPT !.exc = cv.exc]
                 ELSE SolveValuesAll(self, items, i + 1,
                        [st EXCEPT !.values = Compound(self, items[i].k, cv)])
         IN  Solved(CompValues(self, items[i].v, 1,
                      [values |-> st.values, comp |-> << >>, exc |-> ""]))

\* The loop of _BaseName.get over _sorted_items(self.join), from item i: st is
\* [values, exc].
RECURSIVE SolveValues(_, _, _, _)
SolveValues(self, items, i, st) ==
    IF i > Len(items) \/ st.exc # "" THEN st
    ELSE IF (items[i].k \in SeqSet(items[i].v) /\ items[i].k \in DOMAIN st.values)
            \/ Truthy(KwGet(st.values, items[i].k))
    THEN SolveValues(self, items, i + 1, st)
    ELSE LET Solved(cv) ==
                 IF cv.exc # "" THEN [st EXCEPT !.exc = cv.exc]
                 ELSE SolveValues(self, items, i + 1,
                        [st EXCEPT !.values = Compound(self, items[i].k, cv)])
         IN  Solved(CompValues(self, items[i].v, 1,
                      [values |-> st.values, comp |-> << >>, exc |-> ""]))

\* _BaseName.get were it to render the fields even when the instance has a
\* name and no keyword is given.
BaseGetRendered(self, values) == Ret(GetNiceName(self, values))

\* _BaseName.get
BaseGet(self, values) ==
    IF DOMAIN values = {} /\ self._name # << >> THEN Ret(self._name)
    ELSE IF DOMAIN values = {} THEN Ret(GetNiceName(self, values))
    ELSE LET Named(sorted, st) ==
                 IF st.exc # "" THEN Raise(st.exc)
                 ELSE IF sorted.loops THEN Raise("loops")
                 ELSE Ret(GetNiceName(self, st.values))
             Solve(sorted) ==
                 Named(sorted, SolveValues(self, sorted.items, 1,
                                           [values |-> values, exc |-> ""]))
         IN  Solve(SortedItems(self.cls.join))

\* Pipe._format_pipe_field were it to treat index like the other parts.
FormatPipeFieldAlways(k, v) ==
    Dot \o (IF v # PyNone THEN Fmt(v) ELSE Placeholder(k))

\* Pipe._format_pipe_field
FormatPipeField(k, v) ==
    IF k = "index" /\ v = PyNone THEN << >>
    ELSE Dot \o (IF v # PyNone THEN Fmt(v) ELSE Placeholder(k))

\* Pipe._get_pipe_field, from the fields once those not given are taken
\* from _values
PipeField(self, fields) ==
    IF \A k \in DOMAIN fields : fields[k] = PyNone
    THEN IF self._name # << >>
         THEN Fmt(Or(GetAttr(self, "pipe"), PyStr(Dot \o Placeholder("pipe"))))
         ELSE Dot \o Placeholder("pipe")
    ELSE IF ~Truthy(fields.output) /\ fields.index = PyNone
    THEN Dot \o Fmt(fields.version)
    ELSE FormatPipeField("output", fields.output)
         \o FormatPipeField("version", fields.version)
         \o FormatPipeField("index", fields.index)

\* Pipe._get_pipe_field were it to take what is stored for every part given
\* as a false value, 0 among them.
GetPipeFieldFalsy(self, output, version, index) ==
    PipeField(self,
        [output |-> IF Truthy(output) THEN output
                    ELSE Stored(ValuesGet(self, "output")),
         version |-> IF Truthy(version) THEN version
                     ELSE Stored(ValuesGet(self, "version")),
         index |-> IF Truthy(index) THEN index
                   ELSE Stored(ValuesGet(self, "index"))])

\* Pipe._get_pipe_field
GetPipeField(self, output, version, index) ==
    PipeField(self,
        [output |-> IF Or(output, PyNone) # PyNone THEN output
                    ELSE Stored(ValuesGet(self, "output")),
         version |-> IF version # PyNone THEN version
                     ELSE Stored(ValuesGet(self, "version")),
         index |-> IF index # PyNone THEN index
                   ELSE Stored(ValuesGet(self, "index"))])

\* nice_name
NiceName(self) == GetNiceName(self, NoKw)

\* Pipe.pipe_name were it to leave the pipe out.
PipeNameBare(self) == NiceName(self)

\* Pipe.pipe_name
PipeName(self) ==
    NiceName(self)
    \o Fmt(Or(GetAttr(self, "pipe"), PyStr(Dot \o Placeholder("pipe"))))

\* What File.get and Pipe.get append to super().get(): the suffix, and the
\* pipe field.
FileSuffix(self, values) ==
    Dot \o Fmt(Or(Or(KwGet(values, "suffix"), GetAttr(self, "suffix")),
                  PyStr(Placeholder("suffix"))))

PipeSuffix(self, values) ==
    IF "pipe" \in DOMAIN values THEN Fmt(Or(values["pipe"], PyStr(<< >>)))
    ELSE GetPipeField(self, KwGet(values, "output"), KwGet(values, "version"),
                      KwGet(values, "index"))

\* s + tail, unless the call that gave s raised
Then(super, tail) == IF super.exc # "" THEN super ELSE Ret(super.ret \o tail)

\* The method `get` as found from class i of the mro on.
RECURSIVE GetFrom(_, _, _)
GetFrom(self, i, values) ==
    CASE self.cls.mro[i] = "File" ->
           IF DOMAIN values = {} /\ self._name # << >>
           THEN GetFrom(self, i + 1, NoKw)
           ELSE Then(GetFrom(self, i + 1, values), FileSuffix(self, values))
      [] self.cls.mro[i] = "Pipe" ->
           IF DOMAIN values = {} /\ self._name # << >>
           THEN GetFrom(self, i + 1, NoKw)
           ELSE Then(GetFrom(self, i + 1, values), PipeSuffix(self, values))
      [] self.cls.mro[i] = "_BaseName" -> BaseGet(self, values)
      [] OTHER -> GetFrom(self, i + 1, values)

Get(self, values) == GetFrom(self, 1, values)

(***************************************************************************)
(* The setters.  A result is [self, exc]: the instance after the call and  *)
(* the exception it raised ("" when it returned).                          *)
(***************************************************************************)
NoValues == [g \in {} |-> None]

\* dict.update were it to leave alone the keys whose new value is None.
ValuesMerge(old, new) ==
    [g \in DOMAIN old \cup DOMAIN new |->
       IF g \in DOMAIN new /\ (new[g] # None \/ g \notin DOMAIN old)
       THEN new[g] ELSE old[g]]

\* dict.update
ValuesUpdate(old, new) ==
    [g \in DOMAIN old \cup DOMAIN new |-> IF g \in DOMAIN new THEN new[g] ELSE old[g]]

\* The name setter were it to store the name before it looks at the match.
MatchedLate(self, name, r, match) ==
    IF match = << >>
    THEN [self |-> [self EXCEPT !._name = name], exc |-> "ValueError"]
    ELSE [self |-> [self EXCEPT
                      !._values = ValuesUpdate(@, GroupDict(r, match[1])),
                      !._name = name],
          exc |-> ""]

\* The name setter once the name is matched: r is the compiled pattern and
\* match what r.match(name) gives.
Matched(self, name, r, match) ==
    IF match = << >> THEN [self |-> self, exc |-> "ValueError"]
    ELSE [self |-> [self EXCEPT
                      !._values = ValuesUpdate(@, GroupDict(r, match[1])),
                      !._name = name],
          exc |-> ""]

\* The name setter for the string name
NameSetStr(self, name, r) ==
    IF name # << >> THEN Matched(self, name, r, RxMatch(r, name))
    ELSE [self |-> [self EXCEPT !._values = NoValues, !._name = name],
          exc |-> ""]

\* The setter of the name property.
NameSet(self, arg) ==
    NameSetStr(self, IF Truthy(arg) THEN Fmt(arg) ELSE << >>, self.__regex)

\* _init_name_core were it to keep the pattern compiled before.
InitNameCoreStale(self, arg) == NameSet(self, arg)

\* _init_name_core
InitNameCore(self, arg) ==
    IF PatternError(self.cls) # ""
    THEN [self |-> self, exc |-> PatternError(self.cls)]
    ELSE NameSet([self EXCEPT !.__regex = Pattern(self.cls, self._separator)],
                 arg)

\* _set_separator
SetSeparator(self, value) == [self EXCEPT !._separator = value]

\* __init__(name, sep) on the class o
New(o, name, sep) ==
    InitNameCore(SetSeparator([cls |-> o, _separator |-> << >>,
                               __regex |-> RxSeq(<< >>), _name |-> << >>,
                               _values |-> NoValues], sep),
                 PyStr(name))

\* The sep setter once the separator is s1._separator: got is what
\* get(**self.values) gave, when there is a name.
SepNamed(s1, got) ==
    IF got.exc # "" THEN [self |-> s1, exc |-> got.exc]
    ELSE InitNameCore(s1, IF s1._name # << >> THEN PyStr(got.ret) ELSE PyNone)

\* The setter of the sep property were it to render the name before it
\* stores the separator.
SepSetLate(self, value) ==
    SepNamed(SetSeparator(self, value),
             IF self._name # << >> THEN Get(self, Values(self))
             ELSE Ret(<< >>))

\* The setter of the sep property.
SepSet(self, value) ==
    SepNamed(SetSeparator(self, value),
             IF self._name # << >>
             THEN Get(SetSeparator(self, value), Values(self))
             ELSE Ret(<< >>))

\* FieldValue.__set__ were it to store the new name without the name setter.
RenamedUnchecked(self, new_name) ==
    IF new_name.exc # "" THEN [self |-> self, exc |-> new_name.exc]
    ELSE [self |-> [self EXCEPT !._name = new_name.ret], exc |-> ""]

\* FieldValue.__set__ once get(field=val) gave new_name
Renamed(self, new_name) ==
    IF new_name.exc # "" THEN [self |-> self, exc |-> new_name.exc]
    ELSE NameSet(self, PyStr(new_name.ret))

\* FieldValue.__set__ of the field called field
FieldSet(self, field, val) ==
    IF Truthy(val) /\ Fmt(val) = ValuesGet(self, field)
    THEN [self |-> self, exc |-> ""]
    ELSE Renamed(self, Get(self, (field :> val)))

(***************************************************************************)
(* The state machine: one instance, of the class called __class__, and the *)
(* call made on it that the caller has not yet gone on from.               *)
(***************************************************************************)
VARIABLES __class__, _separator, __regex, _name, _values, last,
          program, types, outcome, threads

\* The instance and the call on it; the program's class statements and the
\* threads that run its constructors.
instance == << __class__, _separator, __regex, _name, _values, last >>
definitions == << program, types, outcome, threads >>

vars == << __class__, _separator, __regex, _name, _values, last,
           program, types, outcome, threads >>

Self == [cls |-> Classes[__class__], _separator |-> _separator,
         __regex |-> __regex, _name |-> _name, _values |-> _values]

\* The values given to field setters.
FieldVals == { PyStr(s) : s \in StrUpTo(MaxValLen) } \cup {PyNone, PyInt(0)}

Become(res) ==
    /\ __class__' = res.self.cls.name
    /\ _separator' = res.self._separator
    /\ __regex' = res.self.__regex
    /\ _name' = res.self._name
    /\ _values' = res.self._values

\* The call being answered: last is NoCall between two calls.
Call(op, field, arg, exc) ==
    [op |-> op, field |-> field, arg |-> arg, exc |-> exc, was |-> << >>]

NoCall == Call("", "", PyNone, "")

\* A thread about to construct an instance: where it is in the constructor
\* (pc, and the descriptor it is at), the descriptors it found without memo,
\* what the descriptors returned to it, the _uc of its instance, the pattern
\* it compiled, the exception it raised.
NotStarted == [pc |-> "check", at |-> 1, missed |-> {}, got |-> NoAttrs,
               uc |-> << >>, regex |-> RxSeq(<< >>), exc |-> ""]

MaxThreads == 2

NoThreads == [t \in 1..MaxThreads |-> NotStarted]

\* What a class statement did: nothing yet.
NoOutcome == [op |-> "", cls |-> "", exc |-> "", ret |-> << >>]

\* No program is being run: the classes are the ones of Declared.
AtRest ==
    /\ program = << >>
    /\ types = << >>
    /\ outcome = NoOutcome
    /\ threads = NoThreads

\* An instance is constructed: a construction that raises leaves no instance.
Init ==
    \E c \in Types, sep \in Seps, name \in Names :
        \E res \in {New(Classes[c], name, sep)} :
            /\ res.exc = ""
            /\ __class__ = res.self.cls.name
            /\ _separator = res.self._separator
            /\ __regex = res.self.__regex
            /\ _name = res.self._name
            /\ _values = res.self._values
            /\ last = Call("init", "", PyStr(name), "")
            /\ AtRest

\* obj.name = name
SetName ==
    /\ last = NoCall
    /\ \E name \in Names :
        \E res \in {NameSet(Self, PyStr(name))} :
            /\ Become(res)
            /\ last' = [Call("name", "", PyStr(name), res.exc) EXCEPT !.was = _name]
    /\ UNCHANGED definitions

\* obj.<field> = val
SetField ==
    /\ last = NoCall
    /\ \E self \in {Self} :
        \E field \in FieldsOf(self.cls), val \in FieldVals :
            \E res \in {FieldSet(self, field, val)} :
                /\ Len(res.self._name) <= MaxNameLen
                /\ Become(res)
                /\ last' = [Call("field", field, val, res.exc)
                              EXCEPT !.was = _name]
    /\ UNCHANGED definitions

\* obj.sep = value
SetSep ==
    /\ last = NoCall
    /\ \E value \in Seps :
        \E res \in {SepSet(Self, value)} :
            /\ Become(res)
            /\ last' = Call("sep", "", PyStr(value), res.exc)
    /\ UNCHANGED definitions

\* The names get() is asked with a value for: a field, or a name that is
\* none.
Asked(o) == FieldsOf(o) \cup {"none"}

\* obj.get(**values) were it to keep what it renders as the name.
GetAskedStored(self, values) ==
    [self |-> [self EXCEPT !._name = Get(self, values).ret],
     exc |-> Get(self, values).exc]

\* obj.get(**values): get assigns to nothing of self.
GetAsked(self, values) == [self |-> self, exc |-> Get(self, values).exc]

\* obj.get(field=val)
GetCall ==
    /\ last = NoCall
    /\ \E self \in {Self} :
        \E field \in Asked(self.cls), val \in FieldVals :
            \E res \in {GetAsked(self, (field :> val))} :
                /\ Become(res)
                /\ last' = Call("get", field, val, res.exc)
    /\ UNCHANGED definitions

\* The caller has the call's answer and goes on.
Return ==
    /\ last # NoCall
    /\ last' = NoCall
    /\ UNCHANGED << __class__, _separator, __regex, _name, _values >>
    /\ UNCHANGED definitions

Next == SetName \/ SetField \/ SetSep \/ GetCall \/ Return

Spec == Init /\ [][Next]_vars

(***************************************************************************)
(* The class statements of a program, run one at a time: program is the    *)
(* statements run so far, types the class objects they left and outcome    *)
(* what the last statement did.                                            *)
(***************************************************************************)
\* A program declares at most MaxTypes classes of its own.
MaxTypes == 4

\* The names of the program's classes, in the order they are declared.
TypeNames == [i \in 1..(MaxTypes + 1) |-> <<"T1", "T2", "T3", "T4", "T5">>[i]]

\* The bodies a class statement is given.
Bodies ==
    { Undeclared,
      [Undeclared EXCEPT !.hasConfig = TRUE,
                         !.config = << [k |-> "base", v |-> W] >>],
      [Undeclared EXCEPT !.hasConfig = TRUE,
                         !.config = << [k |-> "base", v |-> D] >>],
      [Undeclared EXCEPT !.hasConfig = TRUE,
                         !.config = << [k |-> "second", v |-> W] >>],
      [Undeclared EXCEPT !.hasDrop = TRUE, !.drop = {"base"}] }

\* The C3 merge of type.mro(): the first head that is in no other tail, then
\* the merge of what is left; << "TypeError" >> ends the result when there
\* is no such head.
RECURSIVE Merge(_)
Merge(seqs) ==
    LET left == SelectSeq(seqs, LAMBDA s : s # << >>)
        good == { i \in 1..Len(left) :
                    \A j \in 1..Len(left) : Head(left[i]) \notin SeqSet(Tail(left[j])) }
        first == CHOOSE i \in good : \A j \in good : i <= j
    IN  IF left = << >> THEN << >>
        ELSE IF good = {} THEN << "TypeError" >>
        ELSE << Head(left[first]) >>
             \o Merge([i \in 1..Len(left) |->
                         SelectSeq(left[i], LAMBDA c : c # Head(left[first]))])

\* cls.mro() of the class called n with the bases named, given the class
\* objects there are.
Mro(classes, n, bases) ==
    << n >> \o Merge([i \in 1..(Len(bases) + 1) |->
                        IF i <= Len(bases) THEN classes[bases[i]].mro
                        ELSE bases])

\* The class objects of the package, before any instance is made.
RECURSIVE Statements(_, _)
Statements(classes, decls) ==
    IF decls = << >> THEN classes
    ELSE Statements(classes @@ (Head(decls).name
                                  :> InitSubclass(classes, Head(decls))),
                    Tail(decls))

PackageTypes == Statements(("_BaseName" :> BaseName), SubSeq(Declared, 1, 4))

\* No instance is being followed.
NoInstance ==
    /\ __class__ = ""
    /\ _separator = << >>
    /\ __regex = RxSeq(<< >>)
    /\ _name = << >>
    /\ _values = NoValues
    /\ last = NoCall

\* The package is imported.
TypeInit ==
    /\ program = << >>
    /\ types = PackageTypes
    /\ outcome = NoOutcome
    /\ threads = NoThreads
    /\ NoInstance

\* class T(bases): body, for a body of bodies and a program of fewer than
\* most classes.  The statement raises TypeError when the bases have no
\* consistent resolution order, and then declares nothing.
Declare(roots, bodies, most) ==
    /\ Len(program) < most
    /\ \E bases \in { << b >> : b \in roots \cup SeqSet(KeyList(program)) }
                    \cup { << a, b >> : a, b \in SeqSet(KeyList(program)) },
          body \in bodies :
        \E n \in {TypeNames[Len(program) + 1]} :
          \E mro \in {Mro(types, n, bases)} :
            /\ Len(bases) = 2 => bases[1] # bases[2]
            /\ IF "TypeError" \in SeqSet(mro)
               THEN /\ outcome' = [op |-> "class", cls |-> n, exc |-> "TypeError",
                                   ret |-> << >>]
                    /\ UNCHANGED << program, types >>
               ELSE \E d \in {[body EXCEPT !.name = n, !.mro = mro]} :
                    /\ program' = Append(program, [k |-> n, v |-> d])
                    /\ types' = types @@ (n :> InitSubclass(types, d))
                    /\ outcome' = [op |-> "class", cls |-> n, exc |-> "",
                                   ret |-> << >>]
    /\ UNCHANGED instance
    /\ UNCHANGED threads

ClassStatement == Declare({"Name"}, Bodies, MaxTypes)

TypeNext == ClassStatement

TypeSpec == TypeInit /\ [][TypeNext]_vars

(***************************************************************************)
(* A program with one class of compound fields: the class statement, the   *)
(* instances made of the class and what is asked of them.  __class__ and   *)
(* the other variables of the instance are the instance made last.         *)
(***************************************************************************)
\* The names of the named groups of r, one for each group.
RECURSIVE RxGroupList(_)
RxGroupList(r) ==
    CASE r.k = "grp" -> << r.n >> \o RxGroupList(r.x)
      [] r.k = "opt" -> RxGroupList(r.x)
      [] r.k = "seq" -> Concat([j \in 1..Len(r.xs) |-> RxGroupList(r.xs[j])])
      [] OTHER -> << >>

\* re.compile raises re.error when a group name is defined twice.
RxError(r) ==
    \E i, j \in 1..Len(RxGroupList(r)) :
        i # j /\ RxGroupList(r)[i] = RxGroupList(r)[j]

\* The config a body declares: none, one field, or three.
CompoundConfigs ==
    { << >>,
      << [k |-> "base", v |-> W] >>,
      << [k |-> "a", v |-> W], [k |-> "b", v |-> D], [k |-> "c", v |-> W] >> }

\* The parts a compound is given.
CompoundParts ==
    { <<"a">>, <<"b">>, <<"c">>, <<"base">>, <<"a", "b">>, <<"b", "c">>,
      <<"c", "a">>, <<"base", "b">>, <<"base", "missing">>, <<"b", "c", "b">> }

\* The compounds of a body, in the order the body writes them.
CompoundKeys == { <<"a", "b", "c">>, <<"c", "b", "a">> }

Joins ==
    { SelectSeq([i \in 1..Len(ks) |-> [k |-> ks[i], v |-> f[i]]],
                LAMBDA x : x.v # << >>) :
        ks \in CompoundKeys,
        f \in [1..3 -> CompoundParts \cup {<< >>}] }

\* The join_sep of a body; none leaves the one of _BaseName, ''.
JoinSeps == { << >>, <<"_">> }

\* The bodies: the join_sep is given where the compounds are written in
\* the order of the fields.
CompoundBodies ==
    { [Undeclared EXCEPT !.hasConfig = (c # << >>), !.config = c,
                         !.hasJoin = (j # << >>), !.join = j,
                         !.hasJoinSep = (s # << >>), !.join_sep = s] :
        << c, j, s >> \in
          (CompoundConfigs \X Joins \X { << >> })
            \cup { << c, j, s >> \in CompoundConfigs \X Joins \X JoinSeps :
                     /\ KeyList(c) = <<"a", "b", "c">>
                     /\ \E f \in [1..3 -> BOOLEAN] :
                          KeyList(j) = SelectSeq(KeyList(c),
                                                 LAMBDA k : \E i \in 1..3 :
                                                    KeyList(c)[i] = k /\ f[i]) } }

\* cls(sep=sep) were every access after the first to resolve the config to
\* nothing.
MadeForgetful(o, sep) ==
    [cls |-> IF "config" \in DOMAIN o.memo
             THEN [o EXCEPT !.memo["config"].result = << >>]
             ELSE FirstUse(o),
     self |-> << >>, exc |-> "ValueError"]

\* cls(sep=sep) on the class o, a subclass of Name: [cls, self, exc], cls
\* being the class after the call.  The first access of self.config that
\* returns is memoized; one that raises, or never returns, leaves nothing.
\* _pattern asks get_pattern_list first, and an override that gives an empty
\* list without reading self.config raises before the config is resolved.
Made(o, sep) ==
    LET hit == "config" \in DOMAIN o.memo /\ o.memo["config"].result # << >>
        Got(c) ==
            IF c.memo["config"].err # ""
            THEN [cls |-> o, self |-> << >>, exc |-> c.memo["config"].err]
            ELSE IF c.memo["config"].loops
            THEN [cls |-> o, self |-> << >>, exc |-> "loops"]
            ELSE IF PatternError(c) # ""
            THEN [cls |-> c, self |-> << >>, exc |-> PatternError(c)]
            ELSE IF NoAttr(c) # {}
            THEN [cls |-> c, self |-> << >>, exc |-> "AttributeError"]
            ELSE IF RxError(Pattern(c, sep))
            THEN [cls |-> c, self |-> << >>, exc |-> "error"]
            ELSE [cls |-> c, self |-> New(c, << >>, sep).self, exc |-> ""]
    IN  IF ~ListReadsConfig(o) /\ PatternError(o) # ""
        THEN [cls |-> o, self |-> << >>, exc |-> PatternError(o)]
        ELSE Got(IF hit THEN o ELSE FirstUse(o))

\* The instance made last, of a class of the program.
Obj == [cls |-> types[__class__], _separator |-> _separator,
          __regex |-> __regex, _name |-> _name, _values |-> _values]

\* The keyword arguments get() is given.
Overrides ==
    { (f :> v) : f \in {"base", "a", "b"}, v \in {PyStr(<<"a">>), PyStr(<<"0">>)} }
      \cup { ("a" :> PyStr(<<"a">>)) @@ ("b" :> PyStr(<<"0">>)),
              ("b" :> PyStr(<<"0">>)) @@ ("c" :> PyStr(<<"a">>)) }

\* NameConfig.__set__
ConfigSet(o, val) == [cls |-> o, exc |-> "AttributeError"]

\* config[k] = val were the mapping a dict.
ConfigSetItemDict(config, k, val) ==
    [config |-> DictSet(config, k, val), exc |-> ""]

\* MappingProxyType has no item assignment: config[k] = val
ConfigSetItem(config, k, val) == [config |-> config, exc |-> "TypeError"]

\* class T1(Name): config = ...; join = ...
CompoundStatement == Declare({"Name"}, CompoundBodies, 1)

\* T(sep='_'), for a class T of the program
Construct ==
    /\ \E c \in Keys(program) :
        \E m \in {Made(types[c], <<"_">>)} :
            /\ types' = [types EXCEPT ![c] = m.cls]
            /\ outcome' = [op |-> "new", cls |-> c, exc |-> m.exc, ret |-> << >>]
            /\ IF m.exc = ""
               THEN Become(m) /\ last' = last
               ELSE UNCHANGED instance
    /\ UNCHANGED << program, threads >>

\* obj.get(**kw)
GetWith ==
    /\ __class__ # ""
    /\ \E kw \in Overrides :
        \E res \in {Get(Obj, kw)} :
            outcome' = [op |-> "get", cls |-> __class__, exc |-> res.exc,
                        ret |-> res.ret]
    /\ UNCHANGED << program, types, threads >>
    /\ UNCHANGED instance

\* The names the instance is given.
JoinNames ==
    { <<"a">>, <<"0">>, <<"0", "a">>, <<"0", "_", "a">>, <<"a", "_", "0">>,
      <<"a", "_", "0", "_", "a">> }

\* obj.name = name
Rename ==
    /\ __class__ # ""
    /\ \E name \in JoinNames :
        \E res \in {NameSet(Obj, PyStr(name))} :
            /\ outcome' = [op |-> "name", cls |-> __class__, exc |-> res.exc,
                           ret |-> res.self._name]
            /\ IF res.exc = ""
               THEN Become(res) /\ last' = last
               ELSE UNCHANGED instance
    /\ UNCHANGED << program, types, threads >>

\* list(_sorted_items(T.join))
Sorted ==
    /\ \E c \in Keys(program) :
        \E res \in {SortedItems(types[c].join)} :
            outcome' = [op |-> "sorted", cls |-> c,
                        exc |-> IF res.loops THEN "loops" ELSE "",
                        ret |-> res.items]
    /\ UNCHANGED << program, types, threads >>
    /\ UNCHANGED instance

\* obj.config = val
AssignConfig ==
    /\ __class__ # ""
    /\ \E val \in CompoundConfigs :
        \E res \in {ConfigSet(types[__class__], val)} :
            /\ types' = [types EXCEPT ![__class__] = res.cls]
            /\ outcome' = [op |-> "config", cls |-> __class__, exc |-> res.exc,
                           ret |-> << >>]
    /\ UNCHANGED << program, threads >>
    /\ UNCHANGED instance

\* obj.config[k] = val
AssignItem ==
    /\ __class__ # ""
    /\ \E k \in {"base", "a", "new"}, val \in {W, D} :
        \E res \in {ConfigSetItem(types[__class__].memo["config"].result, k, val)} :
            /\ types' = [types EXCEPT
                           ![__class__].memo["config"].result = res.config]
            /\ outcome' = [op |-> "item", cls |-> __class__, exc |-> res.exc,
                           ret |-> << >>]
    /\ UNCHANGED << program, threads >>
    /\ UNCHANGED instance

JoinNext ==
    \/ CompoundStatement
    \/ Construct
    \/ Rename
    \/ GetWith
    \/ Sorted
    \/ AssignConfig
    \/ AssignItem

JoinSpec == TypeInit /\ [][JoinNext]_vars

(***************************************************************************)
(* A program of classes that override get_pattern_list: a class whose      *)
(* fields its compounds consume, its subclasses that list the compounds,   *)
(* the instances made of them and the names they are given.                *)
(***************************************************************************)
\* A program declares at most MaxListTypes classes.
MaxListTypes == 3

ListBodies ==
    { \* config = dict(base=r'\w+', a=r'\d+', b=r'\w+'); join = dict(x=('a', 'b'))
      [Undeclared EXCEPT !.hasConfig = TRUE,
                         !.config = << [k |-> "base", v |-> W],
                                       [k |-> "a", v |-> D],
                                       [k |-> "b", v |-> W] >>,
                         !.hasJoin = TRUE,
                         !.join = << [k |-> "x", v |-> <<"a", "b">>] >>],
      \* join = dict(y=('base', 'prop')), with the property prop: 'a'
      [Undeclared EXCEPT !.hasJoin = TRUE,
                         !.join = << [k |-> "y", v |-> <<"base", "prop">>] >>,
                         !.props = << [k |-> "prop", v |-> <<"a">>] >>],
      \* def get_pattern_list(self): return ['x'] + super().get_pattern_list()
      [Undeclared EXCEPT !.hasList = TRUE, !.list = <<"x">>, !.super = TRUE],
      \* def get_pattern_list(self): return ['x', 'y']
      [Undeclared EXCEPT !.hasList = TRUE, !.list = <<"x", "y">>],
      \* def get_pattern_list(self): return []
      [Undeclared EXCEPT !.hasList = TRUE] }

\* class T(bases): with one of the bodies
ListStatement == Declare({"Name"}, ListBodies, MaxListTypes)

\* The names an instance is given.
ListNames ==
    { <<"a">>, <<"0", "a">>, <<"a", "a">>, <<"0", "a", "_", "a">>,
      <<"0", "a", "_", "a", "a">>, <<"0", "a", "_", "0", "_", "a">> }

\* obj.name = name
Parse ==
    /\ __class__ # ""
    /\ \E name \in ListNames :
        \E res \in {NameSet(Obj, PyStr(name))} :
            /\ outcome' = [op |-> "name", cls |-> __class__, exc |-> res.exc,
                           ret |-> res.self._name]
            /\ IF res.exc = ""
               THEN Become(res) /\ last' = last
               ELSE UNCHANGED instance
    /\ UNCHANGED << program, types, threads >>

ListNext == ListStatement \/ Construct \/ Parse

ListSpec == TypeInit /\ [][ListNext]_vars

(***************************************************************************)
(* Subclasses of File declared and used in any order.  A NameConfig keeps  *)
(* its memo on itself, and `file_config` and `pipe_config` are class       *)
(* attributes of File and of Pipe: their subclasses inherit the one        *)
(* descriptor, memo included.  Here the memo of a descriptor is kept on    *)
(* the class whose body holds it.                                          *)
(***************************************************************************)
MaxFileTypes == 2

FileBodies ==
    { [Undeclared EXCEPT !.hasConfig = TRUE, !.config = c,
                         !.hasJoin = (j # << >>), !.join = j] :
        << c, j >> \in
          { << << [k |-> "base", v |-> W] >>, << >> >>,
            << << [k |-> "base", v |-> W], [k |-> "ext", v |-> W],
                  [k |-> "ver", v |-> D] >>,
               << [k |-> "suffix", v |-> <<"ext", "ver">>] >> >>,
            << << [k |-> "base", v |-> W], [k |-> "ext", v |-> D] >>,
               << [k |-> "suffix", v |-> <<"ext">>] >> >> } }

\* The class in whose body the descriptor k that o finds was made:
\* __init_subclass__ makes a new `config` for every class.
DescriptorOwner(o, k) ==
    CASE k = "file_config" -> "File"
      [] k = "pipe_config" -> "Pipe"
      [] OTHER -> o.name

\* The descriptors in the order _pattern reads them: each class of the mro
\* reads its own before it asks super().
Descriptors(o) ==
    LET Of(c) == CASE c = "File" -> <<"file_config">>
                   [] c = "Pipe" -> <<"pipe_config">>
                   [] c = "_BaseName" -> <<"config">>
                   [] OTHER -> << >>
        RECURSIVE From(_)
        From(i) == IF i > Len(o.mro) THEN << >> ELSE Of(o.mro[i]) \o From(i + 1)
    IN  From(1)

\* NameConfig.__get__ of the descriptor k on an instance of the class c, st
\* being [classes, memo, uc, exc]: the classes, what the accesses of this
\* instance returned, the instance's _uc, the exception raised.
Access(st, c, k) ==
    LET o == st.classes[c]
        owner == DescriptorOwner(o, k)
        memo == st.classes[owner].memo
        hit == k \in DOMAIN memo /\ memo[k].result # << >>
        r == NameConfigGet(o, Lookup(o.ncs, k))
        Kept(classes) == [classes EXCEPT ![owner].memo = (k :> r) @@ memo]
    IN  IF st.exc # "" THEN st
        ELSE IF hit THEN [st EXCEPT !.memo = (k :> memo[k]) @@ st.memo]
        ELSE IF r.err # "" THEN [st EXCEPT !.exc = r.err]
        ELSE IF r.loops THEN [st EXCEPT !.exc = "loops"]
        ELSE [classes |-> Kept([st.classes EXCEPT ![c]._uc = r.uc]),
              memo |-> (k :> r) @@ st.memo, uc |-> r.uc, exc |-> ""]

\* cls(name, sep=sep) for the class named c of classes: [classes, self, exc].
MadeOf(classes, c, name, sep) ==
    LET RECURSIVE Read(_, _)
        Read(st, ks) ==
            IF ks = << >> THEN st ELSE Read(Access(st, c, Head(ks)), Tail(ks))
        st == Read([classes |-> classes, memo |-> NoAttrs, uc |-> << >>,
                    exc |-> ""],
                   Descriptors(classes[c]))
        o == [st.classes[c] EXCEPT
                !.memo = st.memo,
                !._uc = IF st.uc # << >> THEN st.uc ELSE st.classes[c]._uc]
        Failed(e) == [classes |-> st.classes, self |-> << >>, exc |-> e]
        made == New(o, name, sep)
    IN  IF st.exc # "" THEN Failed(st.exc)
        ELSE IF PatternError(o) # "" THEN Failed(PatternError(o))
        ELSE IF RxError(Pattern(o, sep)) THEN Failed("error")
        ELSE [classes |-> st.classes, self |-> made.self, exc |-> made.exc]

\* class T(File): ..., or class T(U): ... for a class U of the program
FileStatement == Declare({"File"}, FileBodies, MaxFileTypes)

\* T(name, sep=sep), for a class T of the program
ConstructOf ==
    /\ \E c \in Keys(program), name \in {<< >>, <<"a", ".", "a", "0">>},
          sep \in {<<"_">>, <<".">>} :
        \E m \in {MadeOf(types, c, name, sep)} :
            /\ types' = m.classes
            /\ outcome' = [op |-> "new", cls |-> c, exc |-> m.exc,
                           ret |-> << name, sep >>]
            /\ IF m.exc = ""
               THEN Become(m) /\ last' = last
               ELSE UNCHANGED instance
    /\ UNCHANGED << program, threads >>

OrderNext == FileStatement \/ ConstructOf

OrderSpec == TypeInit /\ [][OrderNext]_vars

(***************************************************************************)
(* Threads that construct instances of one class at the same time.  The    *)
(* constructor takes no lock: a thread may be suspended between any two    *)
(* steps of NameConfig.__get__ -- the look at the memo, the stores to _uc  *)
(* of the instance and of its type, the store to the memo -- and before    *)
(* _pattern reads self._uc.                                                *)
(***************************************************************************)
\* The class the threads make instances of.
Raced == types["T1"]

\* The descriptor the thread th is at.
At(th) == Descriptors(Raced)[th.at]

\* The thread once the descriptor it is at has returned result.
Got(th, result) ==
    LET got == (At(th) :> result) @@ th.got
    IN  IF th.at = Len(Descriptors(Raced))
        THEN [th EXCEPT !.got = got, !.pc = "compile"]
        ELSE [th EXCEPT !.got = got, !.pc = "check", !.at = @ + 1]

\* What the descriptor the thread is at resolves to on the thread's instance.
Resolved(th) == NameConfigGet(Raced, Lookup(Raced.ncs, At(th)))

\* The thread once its constructor has raised e.
Raised(th, e) == [th EXCEPT !.pc = "done", !.exc = e]

\* class T1(base): ..., for a base of the package
RaceStatement == Declare({"Name", "File", "Pipe", "PipeFile"}, FileBodies, 1)

\* result = self.memo.get(self.name) or {}: the descriptor returns what was
\* memoized, or goes on to resolve the compounds
Check(t) ==
    /\ program # << >>
    /\ threads[t].pc = "check"
    /\ LET th == threads[t]
           memo == types[DescriptorOwner(Raced, At(th))].memo
           hit == At(th) \in DOMAIN memo /\ memo[At(th)].result # << >>
       IN  threads' = [threads EXCEPT ![t] =
              IF hit THEN Got(th, memo[At(th)])
              ELSE IF Resolved(th).err # "" THEN Raised(th, Resolved(th).err)
              ELSE IF Resolved(th).loops THEN Raised(th, "loops")
              ELSE [th EXCEPT !.pc = "solved", !.missed = @ \cup {At(th)}]]
    /\ UNCHANGED << program, types, outcome >>
    /\ UNCHANGED instance

\* obj._uc = MappingProxyType(pattern_lookup); objtype._uc = obj._uc
SetUc(t) ==
    /\ threads[t].pc = "solved"
    /\ threads' = [threads EXCEPT ![t].uc = Resolved(threads[t]).uc,
                                  ![t].pc = "store"]
    /\ types' = [types EXCEPT !["T1"]._uc = Resolved(threads[t]).uc]
    /\ UNCHANGED << program, outcome >>
    /\ UNCHANGED instance

\* self.memo[self.name] = result; return result
Store(t) ==
    /\ threads[t].pc = "store"
    /\ LET th == threads[t]
           owner == DescriptorOwner(Raced, At(th))
       IN  /\ types' = [types EXCEPT ![owner].memo =
                          (At(th) :> Resolved(th)) @@ types[owner].memo]
           /\ threads' = [threads EXCEPT ![t] = Got(th, Resolved(th))]
    /\ UNCHANGED << program, outcome >>
    /\ UNCHANGED instance

\* self.__regex = re.compile(rf'^{self._pattern}$'): _pattern joins what the
\* descriptors returned, cast with self._uc, the instance's or else the
\* type's.
Compile(t) ==
    /\ threads[t].pc = "compile"
    /\ LET th == threads[t]
           o == [Raced EXCEPT !.memo = th.got,
                              !._uc = IF th.uc # << >> THEN th.uc ELSE Raced._uc]
       IN  threads' = [threads EXCEPT ![t] =
              IF PatternError(o) # "" THEN Raised(th, PatternError(o))
              ELSE IF RxError(Pattern(o, <<"_">>)) THEN Raised(th, "error")
              ELSE [th EXCEPT !.pc = "done", !.regex = Pattern(o, <<"_">>)]]
    /\ UNCHANGED << program, types, outcome >>
    /\ UNCHANGED instance

RaceNext ==
    \/ RaceStatement
    \/ \E t \in 1..MaxThreads : Check(t) \/ SetUc(t) \/ Store(t) \/ Compile(t)

RaceSpec == TypeInit /\ [][RaceNext]_vars

(***************************************************************************)
(* Round trip of the name.                                                 *)
(***************************************************************************)
\* The call being answered set the name (at construction or through the name
\* property) and returned.
NameWasSet == last.op \in {"init", "name"} /\ last.exc = ""

\* C1 as stated: for any type, any separator and any string s, once setting
\* the name to s has succeeded, get() with no overrides returns exactly s.
RoundTripAnyString == NameWasSet => Get(Self, NoKw) = Ret(last.arg.s)

\* C1, for non-empty strings: for any type, any separator and any non-empty
\* string s, once setting the name to s has succeeded, get() with no overrides
\* (which is what str() of the instance calls) returns exactly s.
RoundTrip ==
    (NameWasSet /\ last.arg.s # << >>) => Get(Self, NoKw) = Ret(last.arg.s)

\* A pipe file name has just been set through the name property.
RoundTripHappens ==
    /\ last.op = "name" /\ last.exc = ""
    /\ last.arg.s # << >>
    /\ __class__ = "MyPipeFile"

(***************************************************************************)
(* Failed calls leave the instance as it was.                              *)
(***************************************************************************)
\* C2: setting the name of an instance, Empty or Bound, to a non-empty string
\* that the compiled pattern does not match raises ValueError and leaves the
\* stored name and the values as they were; get() still returns what it
\* returned before the call.
NameRejected ==
    [][(/\ last'.op = "name"
        /\ last'.arg.s # << >>
        /\ RxMatch(__regex, last'.arg.s) = << >>)
       => (/\ last'.exc = "ValueError"
           /\ _name' = _name
           /\ _values' = _values
           /\ Get(Self, NoKw)' = Get(Self, NoKw))]_vars

\* A Bound instance has refused a name.
NameRejectedHappens ==
    last.op = "name" /\ last.exc = "ValueError" /\ _name # << >>

\* C3: a field setter that renders a new full name (the value is not the
\* field's current one) which is not empty and which the compiled pattern
\* does not match raises ValueError and leaves the stored name and every value
\* as they were.
FieldRejected ==
    [][(/\ last'.op = "field"
        /\ ~(Truthy(last'.arg) /\ Fmt(last'.arg) = ValuesGet(Self, last'.field))
        /\ \E new_name \in {Get(Self, (last'.field :> last'.arg))} :
              /\ new_name.exc = ""
              /\ new_name.ret # << >>
              /\ RxMatch(__regex, new_name.ret) = << >>)
       => (/\ last'.exc = "ValueError"
           /\ _name' = _name
           /\ _values' = _values)]_vars

\* A Bound instance with a year field has refused a value for a field.
FieldRejectedHappens ==
    /\ last.op = "field" /\ last.exc = "ValueError"
    /\ _name # << >>
    /\ __class__ = "Project"

(***************************************************************************)
(* The instance invariant.                                                 *)
(***************************************************************************)
\* C4: in every reachable state, calls that failed included, the compiled
\* pattern is the type's pattern for the current separator; the values are
\* empty when the stored name is empty; and otherwise the pattern matches the
\* stored name and the values are the named groups of that match.
InstanceInvariant ==
    /\ __regex = Pattern(Classes[__class__], _separator)
    /\ _name = << >> => _values = NoValues
    /\ _name # << >> =>
         \E match \in {RxMatch(__regex, _name)} :
             /\ match # << >>
             /\ _values = GroupDict(__regex, match[1])

\* The separator of a Bound instance was changed, and one of its groups took
\* no part in the match.
InstanceInvariantHappens ==
    /\ last.op = "sep"
    /\ _name # << >>
    /\ \E g \in DOMAIN _values : _values[g] = None

(***************************************************************************)
(* Setting a field to the value it has.                                    *)
(***************************************************************************)
\* C5: on a Bound instance, the setter of a field given a value whose string
\* form is the field's current value raises nothing and leaves the stored
\* name and the values as they were.
IdempotentFieldSet ==
    [][(/\ last'.op = "field"
        /\ _name # << >>
        /\ Fmt(last'.arg) = ValuesGet(Self, last'.field))
       => (/\ last'.exc = ""
           /\ _name' = _name
           /\ _values' = _values)]_vars

\* C5's case: a Bound instance whose field was given the string form of its
\* current value.
IdempotentFieldSetHappens ==
    /\ last.op = "field"
    /\ _name # << >>
    /\ Fmt(last.arg) = ValuesGet(Self, last.field)

(***************************************************************************)
(* What the class statements declare, read off the statements themselves.  *)
(***************************************************************************)
\* The class statement of the class called n.
DeclOf(n) == Declared[CHOOSE i \in 1..Len(Declared) : Declared[i].name = n]

\* The names of the config mappings declared along mro, from the most
\* distant base to the type itself, each at the place of its first
\* declaration.
RECURSIVE DeclaredOrder(_)
DeclaredOrder(mro) ==
    IF mro = << >> \/ Head(mro) = "_BaseName" THEN << >>
    ELSE LET inherited == DeclaredOrder(Tail(mro))
         IN  inherited \o SelectSeq(KeyList(DeclOf(Head(mro)).config),
                                    LAMBDA k : k \notin SeqSet(inherited))

\* The names in the drop list of the type called c or of one of its bases.
DropList(c) ==
    UNION { DeclOf(DeclOf(c).mro[i]).drop :
              i \in { j \in 1..Len(DeclOf(c).mro) :
                        DeclOf(c).mro[j] # "_BaseName" } }

\* The compounds declared by the type called c or by one of its bases.
JoinList(c) ==
    UNION { SeqSet(DeclOf(DeclOf(c).mro[i]).join) :
              i \in { j \in 1..Len(DeclOf(c).mro) :
                        DeclOf(c).mro[j] # "_BaseName" } }

\* The fields a compound of the type called c takes: its parts, the
\* compounds themselves apart.
Consumed(c) ==
    UNION { SeqSet(j.v) : j \in JoinList(c) } \ { j.k : j \in JoinList(c) }

\* The top-level fields of the type called c, in declared order.
TopLevelFields(c) ==
    SelectSeq(DeclaredOrder(DeclOf(c).mro),
              LAMBDA k : k \notin DropList(c) /\ k \notin Consumed(c))

PipeNumbers == {PyInt(0), PyInt(1), PyStr(<<"1", "0">>)}
PipeOutputs == {PyStr(<<"a">>), PyStr(<<"a", "0">>)}

\* C7: on an empty Pipe instance whose only config field is base, whatever
\* the separator, get(version=v) is '{base}.v', get(version=v, output=o) is
\* '{base}.o.v', get(version=v, output=o, index=i) is '{base}.o.v.i' and
\* get(index=i) is '{base}.{output}.{version}.i', for numbers v and i and
\* non-empty strings o.
PipeCompound ==
    (_name = << >> /\ __class__ = "MyPipe") =>
        \A v \in PipeNumbers, o \in PipeOutputs, i \in PipeNumbers :
            /\ Get(Self, [version |-> v])
                 = Ret(Placeholder("base") \o Dot \o Fmt(v))
            /\ Get(Self, [version |-> v, output |-> o])
                 = Ret(Placeholder("base") \o Dot \o Fmt(o) \o Dot \o Fmt(v))
            /\ Get(Self, [version |-> v, output |-> o, index |-> i])
                 = Ret(Placeholder("base") \o Dot \o Fmt(o) \o Dot \o Fmt(v)
                       \o Dot \o Fmt(i))
            /\ Get(Self, [index |-> i])
                 = Ret(Placeholder("base") \o Dot \o Placeholder("output")
                       \o Dot \o Placeholder("version") \o Dot \o Fmt(i))

\* An empty Pipe instance whose separator was changed to '_'.
PipeCompoundHappens ==
    /\ last.op = "sep"
    /\ _name = << >>
    /\ __class__ = "MyPipe"
    /\ _separator = <<"_">>

(***************************************************************************)
(* Dropped names.                                                          *)
(***************************************************************************)
\* C8: a name in the drop list of a type or of one of its bases is absent
\* from the type's resolved field list, from the compiled pattern's groups
\* and from the parsed values, also when the type declares a pattern for it
\* again.
DropPropagation ==
    \A d \in DropList(__class__) :
        /\ d \notin SeqSet(GetPatternList(Classes[__class__]))
        /\ d \notin RxGroups(__regex)
        /\ d \notin DOMAIN _values

(***************************************************************************)
(* Changing the separator.                                                 *)
(***************************************************************************)
\* The values of the fields the separator joins.
JoinedValues == [j \in 1..Len(GetPatternList(Classes[__class__])) |->
                   _values[GetPatternList(Classes[__class__])[j]]]

\* What follows the joined fields in the stored name: the pipe part, then
\* the suffix part.
AfterJoined ==
    (IF "pipe" \in DOMAIN _values THEN _values["pipe"] ELSE << >>)
    \o (IF "suffix" \in DOMAIN _values THEN Dot \o _values["suffix"]
        ELSE << >>)

\* The separator change is made as the claims of this section say: the stored
\* name becomes the same values joined by the new separator, the values stay.
SepChanged ==
    /\ last'.exc = ""
    /\ _separator' = last'.arg.s
    /\ _name' = StrJoin(last'.arg.s, JoinedValues) \o AfterJoined
    /\ _values' = _values

\* No character of sep occurs in s.
Apart(s, sep) == \A j \in 1..Len(s), k \in 1..Len(sep) : s[j] # sep[k]

SepCollisionRaises ==
    [][(/\ last'.op = "sep"
        /\ _name # << >>
        /\ \E g \in DOMAIN _values :
              _values[g] # None /\ Contains(_values[g], last'.arg.s))
       => last'.exc = "ValueError"]_vars

\* C10's case: the separator of a Bound instance was given a string that
\* occurred in a field value, and the name was parsed again into other values.
SepCollisionHappens ==
    /\ last.op = "sep" /\ last.exc = ""
    /\ __class__ = "SubName"
    /\ last.arg.s = <<"_">>
    /\ _name = <<"a", "_", "_", "a">>
    /\ _values = [base |-> <<"a", "_">>, second |-> <<"a">>]

(***************************************************************************)
(* The merged config of a class.                                           *)
(***************************************************************************)
\* The body of the class statement of the program's class called c.
BodyOf(c) == Lookup(program, c)

\* The class called c is one of the program's and its body gives a pattern
\* to the field k.
Declares(c, k) == c \in Keys(program) /\ k \in Keys(BodyOf(c).config)

\* The places in the resolution order of the class called c of the classes
\* that declare k.
Declaring(c, k) ==
    { i \in 1..Len(types[c].mro) : Declares(types[c].mro[i], k) }

\* The names in a drop list of the class called c or of one of its bases.
DroppedBy(c) ==
    UNION { BodyOf(types[c].mro[i]).drop :
              i \in { j \in 1..Len(types[c].mro) :
                        types[c].mro[j] \in Keys(program) } }

\* C11: for every class of the program and every field that a class of its
\* resolution order declares and none drops, the merged config of the class
\* gives the field the pattern of the closest class of the resolution order
\* that declares it itself, also when the classes form a diamond and a class
\* in between declares nothing.
MostDerivedWins ==
    \A c \in Keys(program) :
        \A k \in {"base", "second"} :
            (Declaring(c, k) # {} /\ k \notin DroppedBy(c)) =>
                \E i \in Declaring(c, k) :
                    /\ \A j \in Declaring(c, k) : i <= j
                    /\ k \in Keys(types[c].config)
                    /\ Lookup(types[c].config, k)
                         = Lookup(BodyOf(types[c].mro[i]).config, k)

\* C11's case: a diamond whose nearer side declares nothing and whose
\* farther side declares base again.
MostDerivedWinsHappens ==
    /\ Len(program) = 4
    /\ types["T4"].mro = <<"T4", "T3", "T2", "T1", "Name", "_BaseName">>
    /\ BodyOf("T1").config = << [k |-> "base", v |-> W] >>
    /\ BodyOf("T2").config = << [k |-> "base", v |-> D] >>
    /\ BodyOf("T3") = [Undeclared EXCEPT !.name = "T3", !.mro = types["T3"].mro]
    /\ BodyOf("T4") = [Undeclared EXCEPT !.name = "T4", !.mro = types["T4"].mro]
    /\ types["T4"].config = << [k |-> "base", v |-> W] >>

(***************************************************************************)
(* Cycles among compounds.                                                 *)
(***************************************************************************)
\* The compounds of join that compound k lists, itself apart.
Others(join, k) == (SeqSet(Lookup(join, k)) \cap Keys(join)) \ {k}

\* The compounds reached from those of from in one step or more, through
\* at most n steps.
RECURSIVE Reached(_, _, _)
Reached(join, from, n) ==
    IF n = 0 THEN {}
    ELSE LET step == UNION { Others(join, k) : k \in from }
         IN  step \cup Reached(join, step, n - 1)

\* join has a cycle through two distinct compounds or more.
Cyclic(join) == \E k \in Keys(join) : k \in Reached(join, {k}, Len(join))

\* C12: for a type whose compounds have a cycle through two or more distinct
\* compounds, making an instance ends with an error, and neither that nor
\* get() with overrides runs forever.
CycleReported ==
    (outcome.op \in {"new", "get"} /\ Cyclic(types[outcome.cls].join))
        => /\ outcome.exc # "loops"
           /\ outcome.op = "new" => outcome.exc # ""

\* The first instance of a type with a cycle is asked for, and the call
\* never returns.
CycleReportedHappens ==
    /\ outcome.op = "new"
    /\ Cyclic(types[outcome.cls].join)
    /\ outcome.exc = "loops"

\* get() with overrides on an instance of a type with a cycle never returns.
CycleGetLoops ==
    /\ outcome.op = "get"
    /\ Cyclic(types[outcome.cls].join)
    /\ outcome.exc = "loops"

(***************************************************************************)
(* Structurally invalid types.                                             *)
(***************************************************************************)
\* A compound of the class o has a part that is no field and no property.
MissingPart(o) ==
    \E i \in 1..Len(o.join) : \E p \in SeqSet(o.join[i].v) : p \notin DOMAIN o.attrs

\* The class o has no top-level field.
NoTopLevel(o) == o.config = << >>

\* C13: the class statement of a structurally invalid type (a compound with a
\* part that is neither a field nor a property, or no top-level field) ends
\* with an error: it declares no such type.
InvalidReported ==
    (outcome.op = "class" /\ outcome.exc = "")
        => ~(MissingPart(types[outcome.cls]) \/ NoTopLevel(types[outcome.cls]))

\* The first instance of a structurally invalid type is asked for, and only
\* that call raises.
InvalidReportedHappens ==
    /\ outcome.op = "new"
    /\ MissingPart(types[outcome.cls]) \/ NoTopLevel(types[outcome.cls])
    /\ outcome.exc \in {"AttributeError", "ValueError"}

(***************************************************************************)
(* The order compounds are resolved in.                                    *)
(***************************************************************************)
\* The call being answered is list(_sorted_items(join)) for a join with no
\* cycle through two distinct compounds or more.
SortedAcyclic == outcome.op = "sorted" /\ ~Cyclic(types[outcome.cls].join)

\* C14: for a mapping of compounds without cycles (a compound that lists
\* itself is no cycle), _sorted_items ends, yields every item of the mapping
\* exactly once, and yields a key only after every other key of the mapping
\* that is among its parts.
SortedOrder ==
    SortedAcyclic =>
        \E join \in {types[outcome.cls].join} : \E items \in {outcome.ret} :
            /\ outcome.exc = ""
            /\ Len(items) = Len(join)
            /\ \A i \in 1..Len(join) :
                 \E j \in 1..Len(items) : items[j] = join[i]
            /\ \A i \in 1..Len(items) :
                 \A p \in Others(join, items[i].k) :
                     \E j \in 1..(i - 1) : items[j].k = p

\* The items of a mapping without cycles are yielded in another order than
\* the mapping's, one of the compounds listing itself.
SortedOrderHappens ==
    /\ SortedAcyclic
    /\ KeyList(outcome.ret) # KeyList(types[outcome.cls].join)
    /\ \E i \in 1..Len(outcome.ret) : outcome.ret[i].k \in SeqSet(outcome.ret[i].v)

(***************************************************************************)
(* The resolved config.                                                    *)
(***************************************************************************)
\* obj.config, for the instance made last: what its class has memoized.
Config == types[__class__].memo["config"].result

\* C15: the resolved config is read-only.  Assigning to the config attribute
\* of an instance raises AttributeError, assigning to an item of the mapping
\* it returns raises TypeError, and after either the config of the instance
\* is what it was.
ConfigReadOnly ==
    [][outcome'.op \in {"config", "item"}
         => /\ outcome'.op = "config" => outcome'.exc = "AttributeError"
            /\ outcome'.op = "item" => outcome'.exc = "TypeError"
            /\ Config' = Config]_vars

\* An item of the config of an instance was assigned to, and the assignment
\* raised.
ConfigReadOnlyHappens ==
    /\ outcome.op = "item"
    /\ outcome.exc = "TypeError"
    /\ Config # << >>

\* C16: once an instance of a type has resolved the type's config, every later
\* access gives an equal mapping: no instance made later and no operation
\* changes what the type has memoized.
Memoized ==
    [][\A c \in Keys(program) :
         "config" \in DOMAIN types[c].memo
           => /\ "config" \in DOMAIN types'[c].memo
              /\ types'[c].memo["config"].result = types[c].memo["config"].result]_vars

\* get() with overrides has read the config again, after the instance's
\* construction resolved it: the config comes from the memo.
MemoizedHappens ==
    /\ outcome.op = "get"
    /\ outcome.exc = ""
    /\ Config # << >>

(***************************************************************************)
(* The pipe field as parsed.                                               *)
(***************************************************************************)
\* The types of the model that derive from Pipe.
PipeTypes == { c \in Types : "Pipe" \in SeqSet(DeclOf(c).mro) }

\* The numbers the trailing parts of a name are compared with.
Numerals == { <<"0">>, <<"0", "0">> }

\* C17: the values parsed from a name a Pipe type accepts hold an index only
\* if they hold an output, and a name that ends with two numeric dot-parts
\* '.x.y' has output x and version y, and no index.
IndexNeedsOutput ==
    (__class__ \in PipeTypes /\ _name # << >>) =>
        /\ ValuesGet(Self, "index") # None => ValuesGet(Self, "output") # None
        /\ \A x, y \in Numerals :
             ValuesGet(Self, "pipe") = Dot \o x \o Dot \o y
               => /\ ValuesGet(Self, "output") = x
                  /\ ValuesGet(Self, "version") = y
                  /\ ValuesGet(Self, "index") = None

\* A Pipe instance has the name 'a.0.0': two trailing numeric dot-parts.
IndexNeedsOutputHappens ==
    /\ __class__ = "MyPipe"
    /\ _name = <<"a", ".", "0", ".", "0">>
    /\ ValuesGet(Self, "pipe") = <<".", "0", ".", "0">>

(***************************************************************************)
(* What a field setter leaves.                                             *)
(***************************************************************************)
\* C18: after obj.f = v has returned on an instance that had a name, obj.f is
\* the string form of v.
FieldReadsBack ==
    [][(last'.op = "field" /\ last'.exc = "" /\ _name # << >>)
         => (IF last'.field \in DOMAIN _values' THEN _values'[last'.field]
             ELSE None) = Fmt(last'.arg)]_vars

\* obj.output = 0 has returned on a Pipe instance whose output was 'a', and
\* the output is still 'a'.
FieldReadsBackHappens ==
    /\ __class__ = "MyPipe"
    /\ [last EXCEPT !.was = << >>] = Call("field", "output", PyInt(0), "")
    /\ ValuesGet(Self, "output") = <<"a">>

(***************************************************************************)
(* get() as a query.                                                       *)
(***************************************************************************)
\* C19: get() with overrides, valid or not, returns a string and leaves the
\* name, the values and the separator of the instance as they were.
GetIsPure ==
    [][last'.op = "get"
         => /\ last'.exc = ""
            /\ _name' = _name
            /\ _values' = _values
            /\ _separator' = _separator]_vars

\* get() was asked, on an instance with a name, for a value the field's
\* pattern does not match.
GetIsPureHappens ==
    /\ last.op = "get"
    /\ last.field = "base"
    /\ last.arg = PyStr(<<".">>)
    /\ _name # << >>

(***************************************************************************)
(* What a field setter keeps.                                              *)
(***************************************************************************)
\* The compounds of the type called c that hold the field f, directly or
\* through another compound.
RECURSIVE Holding(_, _, _)
Holding(c, fs, n) ==
    IF n = 0 THEN {}
    ELSE LET held == { j.k : j \in { h \in JoinList(c) : SeqSet(h.v) \cap fs # {} } }
         IN  held \cup Holding(c, fs \cup held, n - 1)

\* C20: after obj.f = v has returned on an instance that had a name, every
\* top-level field other than f that is no compound holding f has the value
\* it had, also for a type with a compound that lists itself.
FieldSetFrame ==
    [][(last'.op = "field" /\ last'.exc = "" /\ _name # << >>)
         => \A g \in SeqSet(GetPatternList(Classes[__class__])) \ {last'.field} :
              g \notin Holding(__class__, {last'.field}, Cardinality(JoinList(__class__)))
                => (IF g \in DOMAIN _values' THEN _values'[g] ELSE None)
                     = ValuesGet(Self, g)]_vars

\* obj.base = '0' has returned on the instance 'a.a0' of the type whose
\* compound x lists itself, join = dict(x=('x', 'y')), and x is 'a00'.
FieldSetFrameHappens ==
    /\ __class__ = "Nested"
    /\ [last EXCEPT !.was = << >>] = Call("field", "base", PyStr(<<"0">>), "")
    /\ _name = <<"0", ".", "a", "0", "0">>
    /\ ValuesGet(Self, "x") = <<"a", "0", "0">>

(***************************************************************************)
(* The pattern of an instance and the types used before it.                *)
(***************************************************************************)
\* The classes of the program before any of them had an instance.
Unused == [t \in DOMAIN types |-> [types[t] EXCEPT !.memo = NoAttrs, !._uc = << >>]]

\* The construction just answered, were its class the first one used.
Alone == MadeOf(Unused, outcome.cls, outcome.ret[1], outcome.ret[2])

\* An instance of another class of the program, with another join, was made
\* before the one just made.
AfterAnother ==
    /\ outcome.op = "new"
    /\ \E d \in Keys(program) :
         /\ d # outcome.cls
         /\ "config" \in DOMAIN types[d].memo
         /\ types[d].join # types[outcome.cls].join

\* C21: the pattern compiled for an instance depends on the declarations of
\* its own type, its ancestors' and on its separator only: whatever types were
\* used before, the construction raises what it raises when its type is the
\* first one used, and compiles the same pattern.
PatternIsOwn ==
    outcome.op = "new" =>
        /\ outcome.exc = Alone.exc
        /\ outcome.exc = "" => __regex = Alone.self.__regex

PatternIsOwnHappens == AfterAnother /\ outcome.exc = ""

(***************************************************************************)
(* Instances constructed at the same time.                                 *)
(***************************************************************************)
\* T1(sep='_') in a program with one thread.
Sequential == MadeOf(Unused, "T1", << >>, <<"_">>)

\* C22: when threads construct the first instances of a type at the same
\* time, every instance ends with the pattern that the resolved config and
\* its own lookup table give, the one a single thread compiles.
RaceFree ==
    \A t \in 1..MaxThreads :
        threads[t].pc = "done" =>
            /\ threads[t].exc = Sequential.exc
            /\ threads[t].exc = "" => threads[t].regex = Sequential.self.__regex

\* Two threads have each found a descriptor without memo and resolved it, and
\* both have their instance.
RaceFreeHappens ==
    \E t, u \in 1..MaxThreads :
        /\ t # u
        /\ threads[t].pc = "done" /\ threads[u].pc = "done"
        /\ threads[t].exc = "" /\ threads[u].exc = ""
        /\ threads[t].missed \cap threads[u].missed # {}

(***************************************************************************)
(* The value of a compound and the values of its parts.                    *)
(***************************************************************************)
\* self._values.get(f)
ValueOf(f) == IF f \in DOMAIN _values THEN _values[f] ELSE None

\* The compound ck of parts cvs has the value of its parts, joined.
PartsJoined(ck, cvs) ==
    /\ \A j \in 1..Len(cvs) : ValueOf(cvs[j]) # None
    /\ ValueOf(ck) = StrJoin(types[__class__].join_sep,
                            [j \in 1..Len(cvs) |-> ValueOf(cvs[j])])

\* The name was set and the compound i of the type's join, which does not
\* list itself, has a value.
Joined(i) ==
    /\ outcome.op = "name" /\ outcome.exc = ""
    /\ i \in 1..Len(types[__class__].join)
    /\ types[__class__].join[i].k \notin SeqSet(types[__class__].join[i].v)
    /\ ValueOf(types[__class__].join[i].k) # None

\* C23: after a successful name set, every compound the type uses that does
\* not list itself has the value of its parts, in the order they are
\* declared, with join_sep between them; so have the compounds among them.
CompoundIsJoined ==
    \A i \in 1..3 :
        Joined(i) => PartsJoined(types[__class__].join[i].k,
                                 types[__class__].join[i].v)

\* A compound of two parts, one of them a compound, is joined with '_'.
CompoundIsJoinedHappens ==
    \E i \in 1..3 :
        /\ Joined(i)
        /\ types[__class__].join_sep = <<"_">>
        /\ Len(types[__class__].join[i].v) = 2
        /\ \E p \in SeqSet(types[__class__].join[i].v) :
             p \in Keys(types[__class__].join)

(***************************************************************************)
(* The resolved top-level fields of a type.                                *)
(***************************************************************************)
\* The compounds of the class o that are relevant to its config: the ones in
\* the config or with a part in it.
RelevantTo(o) ==
    { i \in 1..Len(o.join) :
        o.join[i].k \in Keys(o.config) \/ SeqSet(o.join[i].v) \cap Keys(o.config) # {} }

\* k is a part of a relevant compound of o that is not k itself.
PartOfAnother(o, k) ==
    \E i \in RelevantTo(o) : o.join[i].k # k /\ k \in SeqSet(o.join[i].v)

\* k is a part of a relevant compound of o.
PartOfAny(o, k) == \E i \in RelevantTo(o) : k \in SeqSet(o.join[i].v)

\* The fields of the config of o that stay at the top level: the compounds no
\* other compound consumes, and the fields that are no part of a compound.
Staying(o) ==
    SelectSeq(KeyList(o.config),
              LAMBDA k : IF k \in Keys(o.join) THEN ~PartOfAnother(o, k)
                         ELSE ~PartOfAny(o, k))

\* The names of cvs, each at its first place.
RECURSIVE Distinct(_)
Distinct(cvs) ==
    IF cvs = << >> THEN << >>
    ELSE LET r == Distinct(SubSeq(cvs, 1, Len(cvs) - 1))
         IN  IF cvs[Len(cvs)] \in SeqSet(r) THEN r ELSE Append(r, cvs[Len(cvs)])

\* pat is a pattern synthesized for the compound k of o: its parts' groups,
\* each under the part's name, with join_sep between them; the part called
\* as the compound is the compound's own pattern, without a group.
Synthesized(o, k, pat) ==
    LET cvs == Distinct(Lookup(o.join, k))
        At2(i) == IF o.join_sep = << >> THEN i ELSE 2 * i - 1
    IN  /\ pat.k = "seq"
        /\ Len(pat.xs) = At2(Len(cvs))
        /\ \A i \in 1..Len(cvs) :
             IF cvs[i] = k THEN pat.xs[At2(i)] = Lookup(o.config, k)
             ELSE pat.xs[At2(i)].k = "grp" /\ pat.xs[At2(i)].n = cvs[i]
        /\ \A i \in 1..Len(pat.xs) :
             (o.join_sep # << >> /\ i % 2 = 0) => pat.xs[i] = RxLit(o.join_sep)

\* The config of the class called c has been resolved for an instance.
Resolving(c) == c \in Keys(program) /\ "config" \in DOMAIN types[c].memo

\* C24: in the resolved top-level field list of a type the parts of the
\* relevant compounds are absent, the compounds that the config declares and
\* no other compound consumes are at their place in the config with the
\* synthesized pattern, and the other fields keep their pattern and order.
TopLevelResolved ==
    \A c \in {"T1"} :
        Resolving(c) =>
            LET o == types[c]
                result == o.memo["config"].result
            IN  /\ KeyList(result) = Staying(o)
                /\ \A k \in Keys(result) :
                     IF k \in Keys(o.join)
                     THEN Synthesized(o, k, Lookup(result, k))
                     ELSE Lookup(result, k) = Lookup(o.config, k)

\* The resolved list has a compound and a field of its own, and the part of
\* the compound is gone.
TopLevelResolvedHappens ==
    /\ Resolving("T1")
    /\ KeyList(types["T1"].memo["config"].result) = <<"a", "c">>
    /\ Keys(types["T1"].join) = {"a"}
    /\ PartOfAny(types["T1"], "b")

(***************************************************************************)
(* get() with overrides for a compound and for its parts.                  *)
(***************************************************************************)
\* The top-level fields of the instance's type.
TopNames == GetPatternList(types[__class__])

\* The parts of the compound ck of the instance's type.
PartsOf(ck) == Lookup(types[__class__].join, ck)

\* ck is a compound among the top-level fields, and the other top-level
\* fields are no compounds.
TopCompound(ck) ==
    /\ __class__ # ""
    /\ ck \in Keys(types[__class__].join)
    /\ ck \in SeqSet(TopNames)
    /\ \A n \in SeqSet(TopNames) \ {ck} : n \notin Keys(types[__class__].join)

\* What get(**kw) renders for the field n that is no compound: the override,
\* else the stored value, else the placeholder.
PlainField(n, kw) ==
    IF n \in DOMAIN kw THEN Fmt(kw[n])
    ELSE IF ValueOf(n) # None THEN ValueOf(n) ELSE Placeholder(n)

\* The name with v for the compound ck and the other fields as get(**kw)
\* renders them.
NameWith(ck, v, kw) ==
    StrJoin(_separator,
            [i \in 1..Len(TopNames) |->
               IF TopNames[i] = ck THEN v ELSE PlainField(TopNames[i], kw)])

\* The call answered may have been get(**kw).
Answered(kw) ==
    /\ outcome.op = "get"
    /\ Get(Obj, kw) = [exc |-> outcome.exc, ret |-> outcome.ret]

\* kw overrides the compound ck with a non-empty value, and a part of it.
OverCompound(kw, ck) ==
    /\ TopCompound(ck)
    /\ ck \in DOMAIN kw /\ Truthy(kw[ck])
    /\ \E q \in SeqSet(PartsOf(ck)) \ {ck} : q \in DOMAIN kw

\* C25: get() given a non-empty override for a compound and overrides for
\* parts of it renders the compound's override as it is given: the compound is
\* not made of its parts.
OverrideVerbatim ==
    \A kw \in Overrides, ck \in {"a", "b", "c"} :
        (Answered(kw) /\ OverCompound(kw, ck)) =>
            /\ outcome.exc = ""
            /\ outcome.ret = NameWith(ck, Fmt(kw[ck]), kw)

\* get(a='a', b='0') is answered on an instance whose compound a has the
\* parts b and c.
OverrideVerbatimHappens ==
    \E kw \in Overrides :
        /\ Answered(kw) /\ OverCompound(kw, "a")
        /\ PartsOf("a") = <<"b", "c">>

\* kw overrides parts of the compound ck and not ck; the parts of ck are no
\* compounds.
OverParts(kw, ck) ==
    /\ TopCompound(ck)
    /\ ck \notin DOMAIN kw
    /\ \E q \in SeqSet(PartsOf(ck)) \ {ck} : q \in DOMAIN kw
    /\ \A q \in SeqSet(PartsOf(ck)) \ {ck} : q \notin Keys(types[__class__].join)

\* The part q has an override in kw or a stored value.
Available(q, kw) == q \in DOMAIN kw \/ ValueOf(q) # None

\* What the compound ck is rendered as, given kw.
FromParts(ck, kw) ==
    IF \A q \in SeqSet(PartsOf(ck)) : Available(q, kw)
    THEN StrJoin(types[__class__].join_sep,
                 [j \in 1..Len(PartsOf(ck)) |-> PlainField(PartsOf(ck)[j], kw)])
    ELSE PlainField(ck, kw)

\* C26: get() given overrides for parts of a compound renders the compound as
\* its parts' values joined when every part has an override or a stored
\* value; when a part has neither, as the compound's stored value or else its
\* placeholder, without the values given for the other parts.
PartsOverridden ==
    \A kw \in Overrides, ck \in {"a", "b", "c"} :
        (Answered(kw) /\ OverParts(kw, ck)) =>
            /\ outcome.exc = ""
            /\ outcome.ret = NameWith(ck, FromParts(ck, kw), kw)

\* get(b='0') is answered on an instance with no name whose compound a has
\* the parts b and c: c is missing.
PartsOverriddenHappens ==
    \E kw \in Overrides :
        /\ Answered(kw) /\ OverParts(kw, "a")
        /\ PartsOf("a") = <<"b", "c">>
        /\ DOMAIN kw = {"b"}
        /\ _name = << >>

(***************************************************************************)
(* The values after the name is set again.                                 *)
(***************************************************************************)
\* The groups that take part in the match of name against the instance's
\* pattern, with what they capture.
Captured(name) ==
    LET match == RxMatch(__regex, name)
        groups == GroupDict(__regex, match[1])
    IN  IF match = << >> THEN NoKw
        ELSE [g \in { h \in DOMAIN groups : groups[h] # None } |-> PyStr(groups[g])]

\* The name of an instance that had one was set, and the set returned.
SetAgain == last.op = "name" /\ last.exc = "" /\ last.was # << >> /\ _name # << >>

\* C27: after the name of an instance that had a name is set, values holds
\* the fields the new name's match captures and no other; an optional field
\* that the name before had and the new one has not is not in values, and
\* reads None.
ValuesReplaced ==
    SetAgain =>
        /\ Values(Self) = Captured(_name)
        /\ \A f \in DOMAIN Captured(last.was) \ DOMAIN Captured(_name) :
             f \notin DOMAIN Values(Self) /\ GetAttr(Self, f) = PyNone

\* 'a.a.0.0' becomes 'a.0': output and index are gone.
ValuesReplacedHappens ==
    /\ SetAgain
    /\ last.was = <<"a", ".", "a", ".", "0", ".", "0">>
    /\ _name = <<"a", ".", "0">>
    /\ {"output", "index"} \subseteq DOMAIN Captured(last.was) \ DOMAIN Captured(_name)

(***************************************************************************)
(* Name decomposition.                                                     *)
(***************************************************************************)
\* The top-level fields of every type of the program.
TopLevel == [c \in Types |-> TopLevelFields(c)]

\* The types that derive from PipeFile.
PipeFiles == { c \in Types : "PipeFile" \in SeqSet(DeclOf(c).mro) }

\* The stored values of the fields, one after the other.
StoredValues(fields) == [j \in 1..Len(fields) |-> _values[fields[j]]]

Falsy == { v \in FieldVals : ~Truthy(v) }

\* obj.<field> = val has just been run, with val one of vals, on an instance
\* of a Pipe type that had a name.
PipeAssigned(fields, vals) ==
    /\ last'.op = "field"
    /\ last'.field \in fields
    /\ last'.arg \in vals
    /\ __class__ \in PipeTypes
    /\ _name # << >>

\* The name of the instance with the pipe parts given, a part that is None
\* left out.
NameOfParts(output, version, index) ==
    NiceName(Self)
    \o (IF output # None THEN Dot \o output ELSE << >>)
    \o Dot \o version
    \o (IF index # None THEN Dot \o index ELSE << >>)
    \o (IF "File" \in SeqSet(DeclOf(__class__).mro)
        THEN Dot \o _values["suffix"] ELSE << >>)

\* The assignment returned and left the name and the values as they were.
LeftAlone ==
    /\ last'.exc = ""
    /\ _name' = _name
    /\ _values' = _values

\* The assignment returned and the name is the one with '0' as the field.
UsesZero(field) ==
    /\ last'.exc = ""
    /\ _values'[field] = <<"0">>
    /\ _name' = NameOfParts(ValuesGet(Self, "output"),
                            IF field = "version" THEN <<"0">>
                            ELSE ValuesGet(Self, "version"),
                            IF field = "index" THEN <<"0">>
                            ELSE ValuesGet(Self, "index"))

\* What assigning None, a false value or 0 to a pipe field does whether or
\* not the instance has an output.
NoneAndZero ==
    /\ PipeAssigned({"output"}, Falsy) => LeftAlone
    /\ PipeAssigned({"version", "index"}, {PyNone}) => LeftAlone
    /\ PipeAssigned({"version"}, {PyInt(0)}) => UsesZero("version")

\* C29: on an instance of a Pipe type that has a name, assigning None, or
\* another false value, to output, and None to version or index, leaves the
\* name and the values as they were; assigning the integer 0 to version, or
\* to index where the instance has an output, gives the name that has '0' as
\* that field.
ZeroIsProvided ==
    [][/\ NoneAndZero
       /\ (PipeAssigned({"index"}, {PyInt(0)})
           /\ ValuesGet(Self, "output") # None) => UsesZero("index")]_vars

\* The same, with 0 assigned to index on any instance that has a name.
ZeroIsAlwaysNamed ==
    [][/\ NoneAndZero
       /\ PipeAssigned({"index"}, {PyInt(0)}) => UsesZero("index")]_vars

\* obj.index = 0 has returned on the Pipe instance named 'a.a.00', which is
\* now named 'a.a.00.0'.
ZeroIsProvidedHappens ==
    /\ __class__ = "MyPipe"
    /\ last = [Call("field", "index", PyInt(0), "")
                 EXCEPT !.was = <<"a", ".", "a", ".", "0", "0">>]
    /\ _name = <<"a", ".", "a", ".", "0", "0", ".", "0">>

\* obj.version = 0 has returned on the Pipe instance named 'a.a.00', which
\* is now named 'a.a.0'.
ZeroVersionHappens ==
    /\ __class__ = "MyPipe"
    /\ last = [Call("field", "version", PyInt(0), "")
                 EXCEPT !.was = <<"a", ".", "a", ".", "0", "0">>]
    /\ _name = <<"a", ".", "a", ".", "0">>

\* obj.output = None has returned on the PipeFile instance named
\* 'a_a.a.0.0.a', which has kept its name.
NoneIsNotProvidedHappens ==
    /\ __class__ = "ProjectFile"
    /\ last = [Call("field", "output", PyNone, "")
                 EXCEPT !.was = <<"a", "_", "a", ".", "a", ".", "0", ".", "0",
                                 ".", "a">>]
    /\ _name = last.was

(***************************************************************************)
(* Types with no top-level field, and the subtypes that list compounds.    *)
(***************************************************************************)
\* The pattern list of the class o as its declarations give it: what the
\* overrides of get_pattern_list return, from the override i of the mro on,
\* the fields that stay at the top level where none is left.
RECURSIVE Listed(_, _)
Listed(o, i) ==
    IF i > Len(o.lists) THEN Staying(o)
    ELSE o.lists[i].list
         \o (IF o.lists[i].super THEN Listed(o, i + 1) ELSE << >>)

\* An override gives the list of o, and the list is of compounds of o that
\* have a part in the config and of fields that stay at the top level, each
\* of them once.
ListsCompounds(o) ==
    /\ o.lists # << >>
    /\ Listed(o, 1) # << >>
    /\ Distinct(Listed(o, 1)) = Listed(o, 1)
    /\ \A p \in SeqSet(Listed(o, 1)) :
         \/ p \in SeqSet(Staying(o))
         \/ \E j \in RelevantTo(o) : o.join[j].k = p

\* The instance is of the class called c, without a name, and get() gives a
\* placeholder for every name of the list.
MadeWith(c, list) ==
    /\ __class__ = c
    /\ _name = << >>
    /\ Get(Obj, NoKw) =
         Ret(StrJoin(_separator,
                     [j \in 1..Len(list) |-> Placeholder(list[j])]))

\* The name is the values of the list joined by the separator, and every
\* compound of the list is its parts joined.
ParsedWith(o, list) ==
    /\ _name = StrJoin(_separator, [j \in 1..Len(list) |-> ValueOf(list[j])])
    /\ \A j \in 1..Len(o.join) :
         o.join[j].k \in SeqSet(list) => PartsJoined(o.join[j].k, o.join[j].v)

\* C30: constructing an instance of a type whose list of top-level fields is
\* empty raises ValueError and gives no instance; a subtype that overrides
\* get_pattern_list with the compounds is constructed, renders a placeholder
\* for each of them, and a name it accepts gives the compounds and their
\* parts their values.
EmptyListRaises ==
    /\ outcome.op = "new" =>
         LET o == types[outcome.cls]
         IN  /\ Listed(o, 1) = << >> =>
                  outcome.exc = "ValueError" /\ __class__ # outcome.cls
             /\ ListsCompounds(o) =>
                  outcome.exc = "" /\ MadeWith(outcome.cls, Listed(o, 1))
    /\ (outcome.op = "name" /\ outcome.exc = "" /\ outcome.ret # << >>
          /\ ListsCompounds(types[__class__]))
         => ParsedWith(types[__class__], Listed(types[__class__], 1))

\* T2 compounds every field of T1, which leaves it no top-level field, and
\* T2() has raised ValueError; the instance of T3, which lists the two
\* compounds, is named '0a_aa'.
EmptyListRaisesHappens ==
    /\ Len(program) = 3
    /\ types["T2"].lists = << >>
    /\ Staying(types["T2"]) = << >>
    /\ Listed(types["T3"], 1) = <<"x", "y">>
    /\ outcome = [op |-> "new", cls |-> "T2", exc |-> "ValueError", ret |-> << >>]
    /\ __class__ = "T3"
    /\ _name = <<"0", "a", "_", "a", "a">>
    /\ ValueOf("x") = <<"0", "a">>
    /\ ValueOf("y") = <<"a", "a">>
    /\ ValueOf("base") = <<"a">>

====
